---- MODULE Spec2Model ----
(***************************************************************************)
(* Model of trading-bot/src/server.py: the per-(account, endpoint) rate    *)
(* limiter, the 429 backoff executor and the exit/entry signal router.     *)
(* Times are integers in milliseconds; a timestamp is kept as its age, the  *)
(* time elapsed since it was taken.                                        *)
(***************************************************************************)
EXTENDS Integers, Sequences, FiniteSets, TLC

\* ------------------------------------------------------------------------
\* Rate limiter and backoff executor (server.py 63-109)
\* ------------------------------------------------------------------------

\* MIN_GAP_SEC = 0.40 s, in milliseconds.
MIN_GAP_SEC == 400

\* How stale (in clock ticks of 200 ms) the "now" read before taking the lock is
\* tracked; an older "now" counts as this old.
MaxStaleTicks == 2

\* Largest max_attempts argument explored with a single caller (the default
\* of the code is 4); concurrent callers are explored with max_attempts = 1.
MaxAttempts == 3

\* Concurrent callers of _with_429_backoff.
Threads == {"t1", "t2"}

\* (account_name, endpoint_key) pairs used as keys of _last_call_at.
RateKeys == {<<"A", "orders">>, <<"A", "positions">>}

NoThread == "free"

\* Exceptions req_fn may raise: msg is str(e) as a sequence of words,
\* retry_after the Retry-After header of e.response in ms (-1: no header).
\* status is what the broker answered (0: no answer, a transport failure).
FnExceptions ==
    { [status |-> 429, msg |-> <<"HTTP", "429">>, retry_after |-> -1],
      [status |-> 429, msg |-> <<"Too Many Requests">>, retry_after |-> 100],
      [status |-> 0, msg |-> <<"Connection", "reset">>, retry_after |-> -1],
      [status |-> 503, msg |-> <<"Service", "Unavailable">>, retry_after |-> 100] }

NoException == [status |-> 200, msg |-> <<>>, retry_after |-> -1]

\* random.uniform(0.05, 0.25), in ms: the two ends of the interval.
Jitters == {50, 250}

\* The age of a timestamp that was never taken.
Never == -1

\* Ages are tracked up to these caps: an age at its cap stands for "that or more".
NowCap == MaxStaleTicks * 200
AgeCap == NowCap + MIN_GAP_SEC

\* last_age      per key, the age of _last_call_at[key] (Never: key not in the dict)
\* lock_owner    the thread inside "with _last_call_lock", or NoThread
\* th            each caller's position and locals in _with_429_backoff; calls
\*               counts the req_fn() invocations of the current call, exc is the
\*               outcome of the last one, named the (account, endpoint) the
\*               RuntimeError names
\* rec_gap       per key, whether the last two writes of _last_call_at[key]
\*               were seen: "none" (fewer than two), "short" (less than
\*               MIN_GAP_SEC apart) or "full"
\* inv_age       per key, the age of the last req_fn() invocation, capped at
\*               MIN_GAP_SEC (Never: none)
\* inv_gap       per key, the same as rec_gap for the last two req_fn() invocations
\* run           what is explored: the max_attempts arguments callers pass and
\*               the exceptions req_fn raises (rate limiter and executor); the
\*               outcomes of the executor's calls, of the token fetch and of
\*               the DELETE of a position, and the number of signals served
\*               one after the other (router); whether the ghosts calls
\*               (metered) and inv_age, inv_gap (timed) are kept
VARIABLES last_age, lock_owner, th, rec_gap, inv_age, inv_gap, run

rateVars == <<last_age, lock_owner, th, rec_gap, inv_age, inv_gap, run>>

\* active_accounts         the accounts connected at startup, in loop order
\* b_orders, b_positions   the broker's live orders and positions per account
\* instrument_cache        "absent" or "table", per account
\* trades                  the rows of the trades table
\* rt                      per worker (request thread): position in the handler,
\*                         its locals, and trace, a record of what was matched
\*                         and attempted on the account the worker is at (or
\*                         has just left) for the current signal
\* broker_calls            the kinds of broker call made so far: endpoint and
\*                         whether the call went through _with_429_backoff
\* signals_seen            number of signals received
\* b_opening               b_orders and b_positions as they were at startup
\* inst_fetches            per account, the number of tl.get_all_instruments()
\*                         calls that returned the table
VARIABLES active_accounts, b_orders, b_positions, instrument_cache, trades, rt,
          broker_calls, signals_seen, b_opening, inst_fetches

\* what no handler changes
opening == <<active_accounts, b_opening>>

routerVars == <<active_accounts, b_orders, b_positions, instrument_cache, trades, rt,
                broker_calls, signals_seen, b_opening, inst_fetches>>

vars == <<rateVars, routerVars>>

Min(a, b) == IF a < b THEN a ELSE b
Max(a, b) == IF a > b THEN a ELSE b

HasWord(msg, w) == \E i \in 1..Len(msg) : msg[i] = w

\* Mutant of Is429: every failure is taken for a throttling failure.
Is429Any(e) == TRUE

\* is_429 = ("429" in msg) or ("Too Many Requests" in msg)
Is429(e) == HasWord(e.msg, "429") \/ HasWord(e.msg, "Too Many Requests")

\* Mutant of RateWait: the gap is left out of the wait.
RateWaitNoGap(last, now) == last - now

\* wait = (last + min_gap) - now
RateWait(last, now) == (last + MIN_GAP_SEC) - now

\* last = _last_call_at.get(key, 0.0), as a time relative to the present:
\* the 0.0 default lies further back than any age that is tracked
LastCall(k) == IF last_age[k] = Never THEN 0 - AgeCap ELSE 0 - last_age[k]

\* Mutant of AttemptsLeft: the loop runs one attempt too many.
AttemptsLeftOffByOne(attempt, max_attempts) == attempt <= max_attempts

\* for attempt in range(1, max_attempts + 1): is there a next iteration
AttemptsLeft(attempt, max_attempts) == attempt < max_attempts

\* sleep_s = retry_after if retry_after is not None else delay + jitter
SleepFor(e, delay, jitter) ==
    IF e.retry_after # -1 THEN e.retry_after ELSE delay + jitter

\* delay *= 1.6
NextDelay(delay) == (delay * 16) \div 10

IdleThread ==
    [pc |-> "idle", key |-> <<"A", "orders">>, max_attempts |-> 1, attempt |-> 0,
     delay |-> 0, now_age |-> 0, sleep_left |-> 0, calls |-> 0,
     exc |-> NoException, result |-> "none", named |-> <<>>]

RateStart(callers) ==
    /\ last_age = [k \in RateKeys |-> Never]
    /\ lock_owner = NoThread
    /\ th = [t \in callers |-> IdleThread]
    /\ rec_gap = [k \in RateKeys |-> "none"]
    /\ inv_age = [k \in RateKeys |-> Never]
    /\ inv_gap = [k \in RateKeys |-> "none"]

\* the router at rest, for the specifications of the rate limiter
RouterIdle ==
    /\ active_accounts = <<>>
    /\ b_orders = <<>>
    /\ b_positions = <<>>
    /\ instrument_cache = <<>>
    /\ trades = {}
    /\ rt = <<>>
    /\ broker_calls = {}
    /\ signals_seen = 0
    /\ b_opening = <<>>
    /\ inst_fetches = <<>>

\* concurrent callers, one attempt each, req_fn raising a rate-limit error
\* with a Retry-After header or a transport error
RateInit ==
    /\ RateStart(Threads)
    /\ run = [max_attempts |-> {1},
              exceptions |-> {e \in FnExceptions : e.status = 0 \/
                                 (e.status = 429 /\ e.retry_after # -1)},
              scripts |-> {}, tokens |-> {}, codes |-> {}, max_signals |-> 0, metered |-> FALSE,
              timed |-> TRUE]
    /\ RouterIdle

\* one caller, max_attempts from 1 to MaxAttempts, every exception
ExecInit ==
    /\ RateStart({"t1"})
    /\ run = [max_attempts |-> 1..MaxAttempts, exceptions |-> FnExceptions,
              scripts |-> {}, tokens |-> {}, codes |-> {}, max_signals |-> 0, metered |-> FALSE,
              timed |-> TRUE]
    /\ RouterIdle

Older(age, cap) == IF age = Never THEN Never ELSE Min(age + 200, cap)

\* the gap between a timestamp of the given age and one taken now
GapSince(age) ==
    IF age = Never THEN "none" ELSE IF age < MIN_GAP_SEC THEN "short" ELSE "full"

\* 200 ms pass: every timestamp ages and every sleep in progress gets shorter;
\* any thread may be delayed for any time
Tick ==
    /\ last_age' = [k \in RateKeys |-> Older(last_age[k], AgeCap)]
    /\ inv_age' = [k \in RateKeys |-> Older(inv_age[k], MIN_GAP_SEC)]
    /\ th' = [t \in DOMAIN th |->
                [th[t] EXCEPT !.now_age = IF th[t].pc = "rl_lock"
                                             THEN Min(@ + 200, NowCap) ELSE @,
                              !.sleep_left = Max(@ - 200, 0)]]
    /\ UNCHANGED <<lock_owner, rec_gap, inv_gap, run, routerVars>>

\* a caller enters _with_429_backoff(req_fn, account_name, endpoint_key, max_attempts)
ExecStart(t, k, m) ==
    /\ th[t].pc \in {"idle", "done"}
    /\ th' = [th EXCEPT ![t] =
                 [IdleThread EXCEPT !.pc = "rl_now", !.key = k, !.max_attempts = m,
                                    !.attempt = 1, !.delay = MIN_GAP_SEC]]
    /\ UNCHANGED <<last_age, lock_owner, rec_gap, inv_age, inv_gap, run, routerVars>>

\* _respect_rate_limit: now = time.time()
RateNow(t) ==
    /\ th[t].pc = "rl_now"
    /\ th' = [th EXCEPT ![t].now_age = 0, ![t].pc = "rl_lock"]
    /\ UNCHANGED <<last_age, lock_owner, rec_gap, inv_age, inv_gap, run, routerVars>>

\* Mutant of CanAcquire: the lock is entered whoever holds it.
CanAcquireAlways(owner) == TRUE

\* with _last_call_lock: a threading.Lock is entered only while no thread holds it
CanAcquire(owner) == owner = NoThread

\* with _last_call_lock: last = ...; wait = (last + min_gap) - now; if wait > 0: sleep
RateLock(t) ==
    /\ th[t].pc = "rl_lock"
    /\ CanAcquire(lock_owner)
    /\ lock_owner' = t
    /\ LET wait == RateWait(LastCall(th[t].key), 0 - th[t].now_age)
       IN  th' = [th EXCEPT ![t].sleep_left = IF wait > 0 THEN wait ELSE 0,
                            ![t].now_age = 0,
                            ![t].pc = IF wait > 0 THEN "rl_sleep" ELSE "rl_record"]
    /\ UNCHANGED <<last_age, rec_gap, inv_age, inv_gap, run, routerVars>>

\* time.sleep(wait) returns, the lock still held
RateSleep(t) ==
    /\ th[t].pc = "rl_sleep"
    /\ th[t].sleep_left = 0
    /\ th' = [th EXCEPT ![t].pc = "rl_record"]
    /\ UNCHANGED <<last_age, lock_owner, rec_gap, inv_age, inv_gap, run, routerVars>>

\* _last_call_at[key] = time.time(), then the lock is released
RateRecord(t) ==
    /\ th[t].pc = "rl_record"
    /\ lock_owner = t
    /\ last_age' = [last_age EXCEPT ![th[t].key] = 0]
    /\ rec_gap' = [rec_gap EXCEPT ![th[t].key] = GapSince(last_age[th[t].key])]
    /\ lock_owner' = NoThread
    /\ th' = [th EXCEPT ![t].pc = "call"]
    /\ UNCHANGED <<inv_age, inv_gap, run, routerVars>>

\* bookkeeping of the moment req_fn() is invoked, where the run keeps it
InvokeGhost(t) ==
    IF run.timed
    THEN /\ inv_gap' = [inv_gap EXCEPT ![th[t].key] = GapSince(inv_age[th[t].key])]
         /\ inv_age' = [inv_age EXCEPT ![th[t].key] = 0]
    ELSE UNCHANGED <<inv_gap, inv_age>>

\* return req_fn(): the call succeeds
InvokeOk(t) ==
    /\ th[t].pc = "call"
    /\ InvokeGhost(t)
    /\ th' = [th EXCEPT ![t].calls = @ + 1, ![t].exc = NoException, ![t].pc = "done",
                        ![t].result = "returned"]
    /\ UNCHANGED <<last_age, lock_owner, rec_gap, run, routerVars>>

\* req_fn() raises e and e is not a rate-limit error: raise
InvokeRaise(t, e) ==
    /\ th[t].pc = "call"
    /\ ~Is429(e)
    /\ InvokeGhost(t)
    /\ th' = [th EXCEPT ![t].calls = @ + 1, ![t].exc = e, ![t].pc = "done",
                        ![t].result = "raised"]
    /\ UNCHANGED <<last_age, lock_owner, rec_gap, run, routerVars>>

\* req_fn() raises a rate-limit error: time.sleep(sleep_s) starts
InvokeThrottled(t, e, jitter) ==
    /\ th[t].pc = "call"
    /\ Is429(e)
    /\ InvokeGhost(t)
    /\ th' = [th EXCEPT ![t].calls = @ + 1, ![t].exc = e,
                        ![t].sleep_left = SleepFor(e, th[t].delay, jitter),
                        ![t].pc = "bo_sleep"]
    /\ UNCHANGED <<last_age, lock_owner, rec_gap, run, routerVars>>

\* the backoff sleep returns; delay *= 1.6; next attempt, or the loop ends and
\* RuntimeError("[account] Too Many Requests on endpoint after n attempts") is raised
BackoffWake(t) ==
    /\ th[t].pc = "bo_sleep"
    /\ th[t].sleep_left = 0
    /\ IF AttemptsLeft(th[t].attempt, th[t].max_attempts)
       THEN th' = [th EXCEPT ![t].delay = NextDelay(@), ![t].attempt = @ + 1,
                             ![t].pc = "rl_now"]
       ELSE th' = [th EXCEPT ![t].delay = NextDelay(@), ![t].pc = "done",
                             ![t].result = "exhausted", ![t].named = th[t].key]
    /\ UNCHANGED <<last_age, lock_owner, rec_gap, inv_age, inv_gap, run, routerVars>>

RateNext ==
    \/ Tick
    \/ \E t \in DOMAIN th, k \in RateKeys, m \in run.max_attempts : ExecStart(t, k, m)
    \/ \E t \in DOMAIN th : RateNow(t)
    \/ \E t \in DOMAIN th : RateLock(t)
    \/ \E t \in DOMAIN th : RateSleep(t)
    \/ \E t \in DOMAIN th : RateRecord(t)
    \/ \E t \in DOMAIN th : InvokeOk(t)
    \/ \E t \in DOMAIN th, e \in run.exceptions : InvokeRaise(t, e)
    \/ \E t \in DOMAIN th, e \in run.exceptions, j \in Jitters : InvokeThrottled(t, e, j)
    \/ \E t \in DOMAIN th : BackoffWake(t)

\* default of the max_attempts parameter of _with_429_backoff
DefaultMaxAttempts == 4

\* The whole of one _with_429_backoff call as the router sees it: script[i] is
\* the outcome of the i-th req_fn() invocation (NoException: it returns).
\* Gives how the call ends and the number of req_fn() invocations made.
RECURSIVE BackoffRun(_, _, _)
BackoffRun(script, attempt, max_attempts) ==
    IF script[attempt] = NoException
    THEN [kind |-> "ok", calls |-> attempt]
    ELSE IF ~Is429(script[attempt])
    THEN [kind |-> "raised", calls |-> attempt]
    ELSE IF AttemptsLeft(attempt, max_attempts)
    THEN BackoffRun(script, attempt + 1, max_attempts)
    ELSE [kind |-> "exhausted", calls |-> attempt]

With429Backoff(script) == BackoffRun(script, 1, DefaultMaxAttempts)

\* ------------------------------------------------------------------------
\* Signal router, matcher, cancellation, closer and ledger (server.py 155-953)
\* ------------------------------------------------------------------------

\* The accounts of ACCOUNTS_JSON.
AccountNames == {"A", "B", "C"}

\* tl.get_all_instruments(): tradableInstrumentId -> name
InstrumentTable == (1 :> "EURUSD") @@ (2 :> "GBPUSD")

None == "None"

\* Quantities are in ten-thousandths of a lot (1.0 lot = 10000).
Order(id, inst, side, qty) == [id |-> id, inst |-> inst, side |-> side, qty |-> qty]
Position(id, inst, side, qty, pl) ==
    [id |-> id, inst |-> inst, side |-> side, qty |-> qty, pl |-> pl]

\* What tl.get_all_orders() / tl.get_all_positions() of an account can hold
\* when the process starts, in broker-returned order: nothing open; one order
\* and one position of the same symbol, side and quantity; orders of another
\* instrument or quantity and a position behind one of the other side; orders
\* of which the second and third are alike, a position of the other side and
\* one of an instrument the table does not list.
AccountBooks ==
    { [orders |-> <<>>, positions |-> <<>>],
      [orders |-> <<Order(11, 1, "buy", 10000)>>,
       positions |-> <<Position(21, 1, "buy", 10000, 5)>>],
      [orders |-> <<Order(11, 2, "buy", 10000), Order(12, 1, "buy", 20000)>>,
       positions |-> <<Position(21, 1, "sell", 10000, 0),
                       Position(22, 1, "buy", 10000, 7)>>],
      [orders |-> <<Order(11, 1, "buy", 20000), Order(12, 1, "buy", 10000),
                    Order(13, 1, "buy", 10000)>>,
       positions |-> <<Position(21, 1, "sell", 10000, 0),
                       Position(22, 3, "buy", 10000, 0)>>] }

\* Broker-reported quantities around the signal's 1.0 lot: off by 0.0009 and by
\* 0.0011 on either side.
MatcherQtys == {9989, 9991, 10000, 10009, 10011}

\* Books of two EURUSD buy orders and two EURUSD buy positions of such
\* quantities.
MatcherBooks ==
    { [orders |-> <<Order(11, 1, "buy", q[1]), Order(12, 1, "buy", q[2])>>,
       positions |-> <<Position(21, 1, "buy", q[3], 5),
                       Position(22, 1, "buy", q[4], 7)>>] :
          q \in [1..4 -> MatcherQtys] }

\* Entry signals as they reach handle_entry_signal: signal_type, symbol,
\* fields["Trade ID"], float(fields["Lot Size"]), float(fields["Entry Price"])
\* (prices in ten-thousandths).
EntrySignals ==
    { [kind |-> "BUY", symbol |-> "EURUSD", trade_id |-> "T1", lot_size |-> 10000,
       entry_price |-> 11000],
      [kind |-> "SELL", symbol |-> "EURUSD", trade_id |-> "", lot_size |-> 10000,
       entry_price |-> 11000],
      [kind |-> "BUY", symbol |-> "EURUSD", trade_id |-> "T1", lot_size |-> 0,
       entry_price |-> 11000],
      [kind |-> "BUY", symbol |-> "EURUSD", trade_id |-> "T1", lot_size |-> 10000,
       entry_price |-> 0],
      [kind |-> "BUY", symbol |-> "EURUSD", trade_id |-> "T2", lot_size |-> 10000,
       entry_price |-> 11000] }

\* Exit signals as they reach handle_exit_signal: symbol, fields["Side"],
\* float(fields["Lot Size"]).
ExitSignals ==
    { [kind |-> "CLOSE", symbol |-> "EURUSD", side |-> "buy", lot_size |-> 10000],
      [kind |-> "CLOSE", symbol |-> "EURUSD", side |-> "BUY", lot_size |-> 10000],
      [kind |-> "CLOSE", symbol |-> "EURUSD", side |-> "hold", lot_size |-> 10000],
      [kind |-> "CLOSE", symbol |-> "EURUSD", side |-> "sell", lot_size |-> 0],
      [kind |-> "CLOSE", symbol |-> "", side |-> "buy", lot_size |-> 10000] }

\* Outcomes of the req_fn() invocations of one _with_429_backoff call.
Throttled429 == [status |-> 429, msg |-> <<"HTTP", "429">>, retry_after |-> -1]
TransportError == [status |-> 0, msg |-> <<"Connection", "reset">>, retry_after |-> -1]

ScriptOk == <<NoException, NoException, NoException, NoException>>
ScriptExhausted == <<Throttled429, Throttled429, Throttled429, Throttled429>>

ExecScripts ==
    { ScriptOk,
      <<Throttled429, NoException, NoException, NoException>>,
      ScriptExhausted,
      <<TransportError, NoException, NoException, NoException>> }

\* Outcomes of tl.get_access_token() in close_filled_position_safe: a token, a
\* requests.RequestException, another exception.
CloseTokens == {"ok", "request_error", "raises"}

\* Signals handled one after the other in the specification of the ledger.
MaxSignals == 3

\* the run of a specification of the router; max_signals: up to how many
\* signals a request thread goes on to serve the next request
RouterRun(scripts, tokens, codes, max_signals) ==
    [max_attempts |-> {}, exceptions |-> {},
     scripts |-> scripts, tokens |-> tokens, codes |-> codes,
     max_signals |-> max_signals, metered |-> FALSE, timed |-> FALSE]

\* n broker calls more for the signal, where the run counts them
Metered(n) == IF run.metered THEN n ELSE 0

\* Status codes of requests.delete in close_filled_position_safe (0: the
\* request raised requests.RequestException).
CloseResponses == {200, 404, 401, 409, 503, 418, 0}

\* max_retries default of close_filled_position_safe
CloseMaxRetries == 2

Workers == {"w1", "w2"}

NoResult == [status |-> "unset", action |-> "", id |-> 0]
NoTrace == [account |-> "", order_matched |-> FALSE, cancel |-> "none",
            position_matched |-> FALSE, close |-> "none",
            attempt |-> 0, tokens |-> 0, deletes |-> 0, code |-> -1,
            absent |-> "unchecked",
            orders_ok |-> FALSE, positions_ok |-> FALSE, exhausted |-> FALSE,
            submits |-> 0, placing |-> "none",
            cancels |-> 0, cancel_id |-> 0, closes |-> 0, close_id |-> 0,
            sleeps |-> 0, slept |-> 0]
NoSignal == [kind |-> "none"]
NoResponse == [code |-> 0]
NoRow == [id |-> 0]


IdleWorker ==
    [pc |-> "idle", sig |-> NoSignal, seq |-> 0, idx |-> 0,
     orders_ok |-> FALSE, orders |-> <<>>, positions_ok |-> FALSE, positions |-> <<>>,
     account_results |-> [a \in AccountNames |-> NoResult],
     successful_count |-> 0, no_position_count |-> 0, failed_count |-> 0,
     close_pos |-> 0, attempt |-> 0, backoff |-> 0,
     trace |-> NoTrace, calls_ok |-> TRUE, calls |-> 0,
     response |-> NoResponse]

\* the state of the process and of the broker at startup, given the books
\* b_opening the accounts hold
RouterStartAt(accounts, workers) ==
    /\ active_accounts = accounts
    /\ b_orders = [a \in AccountNames |-> b_opening[a].orders]
    /\ b_positions = [a \in AccountNames |-> b_opening[a].positions]
    /\ instrument_cache = [a \in AccountNames |-> "absent"]
    /\ trades = {}
    /\ rt = [w \in workers |-> IdleWorker]
    /\ broker_calls = {}
    /\ signals_seen = 0
    /\ inst_fetches = [a \in AccountNames |-> 0]

RouterStart(accounts, workers) ==
    /\ b_opening \in [AccountNames -> AccountBooks]
    /\ RouterStartAt(accounts, workers)

\* the account the worker is at
Acct(w) == active_accounts[rt[w].idx]

Abs(x) == IF x < 0 THEN 0 - x ELSE x

Lower(side) == IF side = "BUY" THEN "buy" ELSE IF side = "SELL" THEN "sell" ELSE side

\* validate_exit_parameters(symbol, side, lot_size): is the list of errors empty
ExitValid(symbol, side, lot_size) ==
    /\ symbol # ""
    /\ side \in {"buy", "sell", "BUY", "SELL"}
    /\ lot_size > 0

\* Mutant of GetSymbolFromInstrumentId: without a table, the instrument id is
\* taken for the first instrument's.
GetSymbolGuessing(a, instrument_id) ==
    IF instrument_cache[a] = "absent" THEN InstrumentTable[1]
    ELSE IF instrument_id \in DOMAIN InstrumentTable THEN InstrumentTable[instrument_id]
    ELSE None

\* Mutant of GetSymbolFromInstrumentId: a missing cache is fetched on the way.
GetSymbolFetching(a, instrument_id) ==
    IF instrument_id \in DOMAIN InstrumentTable THEN InstrumentTable[instrument_id]
    ELSE None

\* get_symbol_from_instrument_id: the cache only, None on any miss
GetSymbolFromInstrumentId(a, instrument_id) ==
    IF instrument_cache[a] = "absent" THEN None
    ELSE IF instrument_id \in DOMAIN InstrumentTable THEN InstrumentTable[instrument_id]
    ELSE None

\* Mutant of QtyMatch: the difference is not taken in absolute value.
QtyMatchOneSided(qty, lot_size) == qty - lot_size < 10

\* abs(qty - lot_size) < 0.001
QtyMatch(qty, lot_size) == Abs(qty - lot_size) < 10

\* Mutant of RowMatches: the quantity is not compared.
RowMatchesAnyQty(a, row, sig) ==
    /\ GetSymbolFromInstrumentId(a, row.inst) = sig.symbol
    /\ row.side = sig.side

\* the match condition applied to an order and to a position
RowMatches(a, row, sig) ==
    /\ GetSymbolFromInstrumentId(a, row.inst) = sig.symbol
    /\ row.side = sig.side
    /\ QtyMatch(row.qty, sig.lot_size)

\* Mutant of FirstMatch: the last row that matches.
LastMatch(a, rows, sig) ==
    IF \E i \in 1..Len(rows) : RowMatches(a, rows[i], sig)
    THEN CHOOSE i \in 1..Len(rows) :
            /\ RowMatches(a, rows[i], sig)
            /\ \A j \in (i + 1)..Len(rows) : ~RowMatches(a, rows[j], sig)
    ELSE 0

\* index of the first row of the fetched list that matches, 0 if none
FirstMatch(a, rows, sig) ==
    IF \E i \in 1..Len(rows) : RowMatches(a, rows[i], sig)
    THEN CHOOSE i \in 1..Len(rows) :
            /\ RowMatches(a, rows[i], sig)
            /\ \A j \in 1..(i - 1) : ~RowMatches(a, rows[j], sig)
    ELSE 0

Ids(rows) == {rows[i].id : i \in 1..Len(rows)}

Without(rows, id) == SelectSeq(rows, LAMBDA r : r.id # id)

\* close_trade_in_db: the open rows the UPDATE may pick (the most recent ones)
CloseCandidates(a, symbol, side, lot_size) ==
    LET open == {r \in trades : /\ r.account_name = a /\ r.symbol = symbol
                                /\ r.side = side /\ r.lot_size = lot_size
                                /\ r.status \in {"PENDING", "FILLED"}}
    IN  {r \in open : \A o \in open : o.created_at <= r.created_at}

\* close_trade_in_db with the row the UPDATE picks; target = NoRow when no row
\* is updated (no candidate, or the database call failed)
CloseTradeInDb(target, close_method, position_id, order_id, realized_pnl) ==
    IF target = NoRow THEN trades
    ELSE (trades \ {target}) \cup
         {[target EXCEPT !.status = "CLOSED", !.close_method = close_method,
                         !.close_position_id = position_id,
                         !.close_order_id = order_id,
                         !.realized_pnl = realized_pnl]}

CloseTargets(a, sig) == CloseCandidates(a, sig.symbol, sig.side, sig.lot_size) \cup {NoRow}

\* Mutant of NextAccount: the loop is left at the first failed account.
NextAccountStopOnFailure(r) ==
    IF r.idx < Len(active_accounts) /\ r.failed_count = 0
    THEN [r EXCEPT !.idx = @ + 1,
                   !.pc = IF r.sig.kind = "CLOSE" THEN "orders" ELSE "entry",
                   !.orders_ok = FALSE, !.orders = <<>>,
                   !.positions_ok = FALSE, !.positions = <<>>,
                   !.close_pos = 0, !.attempt = 0, !.backoff = 0]
    ELSE [r EXCEPT !.pc = "respond",
                   !.orders_ok = FALSE, !.orders = <<>>,
                   !.positions_ok = FALSE, !.positions = <<>>,
                   !.close_pos = 0, !.attempt = 0, !.backoff = 0]

\* the worker moves on to the next account, or to the summary after the last
NextAccount(r) ==
    IF r.idx < Len(active_accounts)
    THEN [r EXCEPT !.idx = @ + 1,
                   !.pc = IF r.sig.kind = "CLOSE" THEN "orders" ELSE "entry",
                   !.orders_ok = FALSE, !.orders = <<>>,
                   !.positions_ok = FALSE, !.positions = <<>>,
                   !.close_pos = 0, !.attempt = 0, !.backoff = 0]
    ELSE [r EXCEPT !.pc = "respond",
                   !.orders_ok = FALSE, !.orders = <<>>,
                   !.positions_ok = FALSE, !.positions = <<>>,
                   !.close_pos = 0, !.attempt = 0, !.backoff = 0]

\* handle_exit_signal up to the account loop: side is lower-cased, the
\* parameters validated; a validation error is answered with 400
ReceiveExit(w, sig) ==
    /\ \/ rt[w].pc = "idle"
       \/ rt[w].pc = "responded" /\ signals_seen < run.max_signals
    /\ signals_seen' = signals_seen + 1
    /\ LET side == Lower(sig.side)
           s == [sig EXCEPT !.side = side]
       IN  IF ExitValid(sig.symbol, side, sig.lot_size)
           THEN rt' = [rt EXCEPT ![w] = NextAccount([IdleWorker EXCEPT
                                                        !.sig = s,
                                                        !.seq = signals_seen + 1])]
           ELSE rt' = [rt EXCEPT ![w] = [IdleWorker EXCEPT !.sig = s, !.pc = "responded",
                                                           !.response = [code |-> 400]]]
    /\ UNCHANGED <<b_orders, b_positions, instrument_cache, trades, broker_calls, rateVars, opening, inst_fetches>>

\* orders = _with_429_backoff(lambda: tl.get_all_orders(), account_name, "orders"),
\* None when the call raises
ExitPullOrders(w, script) ==
    /\ rt[w].pc = "orders"
    /\ LET r == With429Backoff(script)
       IN  rt' = [rt EXCEPT ![w].trace = [NoTrace EXCEPT
                                                  !.account = Acct(w),
                                                  !.orders_ok = (r.kind = "ok"),
                                                  !.exhausted = (r.kind = "exhausted")],
                            ![w].calls_ok = @ /\ r.kind = "ok",
                            ![w].calls = @ + Metered(r.calls),
                            ![w].orders_ok = (r.kind = "ok"),
                            ![w].orders = IF r.kind = "ok" THEN b_orders[Acct(w)] ELSE <<>>,
                            ![w].pc = "positions"]
    /\ broker_calls' = broker_calls \cup {[endpoint |-> "orders", throttled |-> TRUE]}
    /\ UNCHANGED <<b_orders, b_positions, instrument_cache, trades, signals_seen, rateVars, opening, inst_fetches>>

\* positions = _with_429_backoff(lambda: tl.get_all_positions(), ...)
ExitPullPositions(w, script) ==
    /\ rt[w].pc = "positions"
    /\ LET r == With429Backoff(script)
       IN  rt' = [rt EXCEPT ![w].calls_ok = @ /\ r.kind = "ok",
                            ![w].calls = @ + Metered(r.calls),
                            ![w].trace.positions_ok = (r.kind = "ok"),
                            ![w].trace.exhausted = @ \/ r.kind = "exhausted",
                            ![w].positions_ok = (r.kind = "ok"),
                            ![w].positions = IF r.kind = "ok" THEN b_positions[Acct(w)]
                                             ELSE <<>>,
                            ![w].pc = "instruments"]
    /\ broker_calls' = broker_calls \cup {[endpoint |-> "positions", throttled |-> TRUE]}
    /\ UNCHANGED <<b_orders, b_positions, instrument_cache, trades, signals_seen, rateVars, opening, inst_fetches>>

\* "if account_name not in instrument_cache or not isinstance(...)": the test
\* that decides whether the instruments are fetched
ExitPrefetchCheck(w) ==
    /\ rt[w].pc = "instruments"
    /\ rt' = [rt EXCEPT ![w].pc = IF instrument_cache[Acct(w)] = "absent"
                                  THEN "fetch" ELSE "step1"]
    /\ UNCHANGED <<b_orders, b_positions, instrument_cache, trades, broker_calls,
                   signals_seen, rateVars, opening, inst_fetches>>

\* the prefetch: _with_429_backoff(lambda: tl.get_all_instruments(), ...) and
\* the assignment to instrument_cache[account_name]; a failure is logged
ExitPrefetch(w, script) ==
    /\ rt[w].pc = "fetch"
    /\ LET r == With429Backoff(script)
           a == Acct(w)
       IN  /\ rt' = [rt EXCEPT ![w].pc = "step1",
                               ![w].trace.exhausted = @ \/ r.kind = "exhausted",
                               ![w].calls = @ + Metered(r.calls),
                               ![w].calls_ok = @ /\ r.kind = "ok"]
           /\ instrument_cache' =
                  [instrument_cache EXCEPT ![a] = IF r.kind = "ok" THEN "table" ELSE @]
           /\ inst_fetches' =
                  [inst_fetches EXCEPT ![a] = IF r.kind = "ok" THEN @ + 1 ELSE @]
           /\ broker_calls' = broker_calls \cup
                                 {[endpoint |-> "instruments", throttled |-> TRUE]}
    /\ UNCHANGED <<b_orders, b_positions, trades, signals_seen, rateVars, opening>>

\* "orders is not None and not orders.empty"
SearchesOrders(r) == r.orders_ok /\ Len(r.orders) > 0

\* Mutant of SearchesPositions: without the orders, the positions are skipped.
SearchesPositionsNeedsOrders(r) == r.orders_ok /\ r.positions_ok /\ Len(r.positions) > 0

\* "positions is not None and not positions.empty"
SearchesPositions(r) == r.positions_ok /\ Len(r.positions) > 0

\* Mutant of EntersStep2: step 2 runs whatever step 1 did.
EntersStep2Always(order_cancelled) == TRUE

\* "if not order_cancelled:", the test that guards step 2
EntersStep2(order_cancelled) == ~order_cancelled

\* Step 1 of the account loop: the first matching order, if any, is cancelled
\* with cancel_pending_order (one _with_429_backoff call of tl.delete_order;
\* success is what the broker returns). A cancelled order closes the ledger row
\* and gives the account its SUCCESS result; a failed cancel raises inside the
\* try of step 1, which logs a warning and leaves order_cancelled False.
ExitStep1(w, script, success, target) ==
    /\ rt[w].pc = "step1"
    /\ LET a == Acct(w)
           r == rt[w]
           i == IF SearchesOrders(r) THEN FirstMatch(a, r.orders, r.sig) ELSE 0
       IN  IF i = 0
           THEN /\ rt' = [rt EXCEPT ![w] = IF EntersStep2(FALSE)
                                               THEN [r EXCEPT !.pc = "step2"]
                                               ELSE NextAccount(r)]
                \* no cancellation: its inputs are left at their defaults
                /\ script[1] = NoException /\ success /\ target = NoRow
                /\ UNCHANGED <<b_orders, trades, broker_calls>>
           ELSE LET order == r.orders[i]
                    cancelled == /\ With429Backoff(script).kind = "ok"
                                 /\ success
                                 /\ order.id \in Ids(b_orders[a])
                IN  /\ broker_calls' = broker_calls \cup
                                          {[endpoint |-> "delete_order", throttled |-> TRUE]}
                    /\ IF cancelled
                       THEN /\ b_orders' = [b_orders EXCEPT ![a] = Without(@, order.id)]
                            /\ target \in CloseTargets(a, r.sig)
                            /\ trades' = CloseTradeInDb(target, "ORDER_CANCELLED", 0,
                                                        order.id, 0)
                            /\ LET done == [r EXCEPT
                                                !.calls = @ + Metered(
                                                    With429Backoff(script).calls),
                                                !.account_results[a] =
                                                    [status |-> "SUCCESS",
                                                     action |-> "ORDER_CANCELLED",
                                                     id |-> order.id],
                                                !.successful_count = @ + 1,
                                                !.trace.order_matched = TRUE,
                                                !.trace.cancels = @ + 1,
                                                !.trace.cancel_id = order.id,
                                                !.trace.cancel = "ok"]
                               IN  rt' = [rt EXCEPT ![w] =
                                             IF EntersStep2(TRUE)
                                             THEN [done EXCEPT !.pc = "step2"]
                                             ELSE NextAccount(done)]
                       ELSE /\ LET failing == [r EXCEPT
                                                !.trace.exhausted =
                                                    @ \/ With429Backoff(script).kind
                                                             = "exhausted",
                                                !.calls_ok = FALSE,
                                                !.calls = @ + Metered(
                                                    With429Backoff(script).calls),
                                                !.trace.order_matched = TRUE,
                                                !.trace.cancels = @ + 1,
                                                !.trace.cancel_id = order.id,
                                                !.trace.cancel = "failed"]
                               IN  rt' = [rt EXCEPT ![w] =
                                             IF EntersStep2(FALSE)
                                             THEN [failing EXCEPT !.pc = "step2"]
                                             ELSE NextAccount(failing)]
                            /\ target = NoRow
                            /\ UNCHANGED <<b_orders, trades>>
    /\ UNCHANGED <<b_positions, instrument_cache, signals_seen, rateVars, opening, inst_fetches>>

\* Step 2, reached with order_cancelled False: the first matching position, if
\* any, is handed to close_filled_position_safe; with none the account's result
\* is NO_POSITION_FOUND.
ExitStep2(w) ==
    /\ rt[w].pc = "step2"
    /\ LET a == Acct(w)
           r == rt[w]
           j == IF SearchesPositions(r) THEN FirstMatch(a, r.positions, r.sig) ELSE 0
       IN  IF j = 0
           THEN rt' = [rt EXCEPT ![w] = NextAccount(
                          [r EXCEPT !.account_results[a] =
                                        [status |-> "NO_POSITION_FOUND", action |-> "",
                                         id |-> 0],
                                    !.no_position_count = @ + 1])]
           ELSE rt' = [rt EXCEPT ![w].pc = "close", ![w].close_pos = j,
                                 ![w].attempt = 1, ![w].backoff = 800,
                                 ![w].trace.closes = @ + 1,
                                 ![w].trace.close_id = r.positions[j].id,
                                 ![w].trace.position_matched = TRUE]
    /\ UNCHANGED <<b_orders, b_positions, instrument_cache, trades, broker_calls,
                   signals_seen, rateVars, opening, inst_fetches>>

\* _headers() is evaluated for every requests.delete: each attempt of
\* close_filled_position_safe calls tl.get_access_token()
\* Mutant of FetchesToken: the token of the first attempt is kept.
FetchesTokenOnce(attempt) == attempt = 1

FetchesToken(attempt) == attempt >= 1

\* Mutant of CloseVerdict: a 409 is never a success.
CloseVerdictConflictRetries(token, code, absent, attempt) ==
    IF token = "raises" THEN "raise"
    ELSE IF token = "request_error" \/ code = 0
    THEN (IF attempt < CloseMaxRetries THEN "retry" ELSE "false")
    ELSE IF code \in {200, 204} THEN "true"
    ELSE IF code = 404 /\ absent THEN "true"
    ELSE IF attempt < CloseMaxRetries THEN "retry"
    ELSE "false"

\* Mutant of CloseVerdict: a 404 is a success without the re-check.
CloseVerdictNotFoundOk(token, code, absent, attempt) ==
    IF token = "raises" THEN "raise"
    ELSE IF token = "request_error" \/ code = 0
    THEN (IF attempt < CloseMaxRetries THEN "retry" ELSE "false")
    ELSE IF code \in {200, 204, 404} THEN "true"
    ELSE IF code = 409 /\ absent THEN "true"
    ELSE IF attempt < CloseMaxRetries THEN "retry"
    ELSE "false"

\* Mutant of CloseVerdict: the closer gives True when it runs out of attempts.
CloseVerdictGivesUpTrue(token, code, absent, attempt) ==
    IF token = "raises" THEN "raise"
    ELSE IF token = "request_error" \/ code = 0
    THEN (IF attempt < CloseMaxRetries THEN "retry" ELSE "false")
    ELSE IF code \in {200, 204} THEN "true"
    ELSE IF code \in {404, 409} /\ absent THEN "true"
    ELSE IF attempt < CloseMaxRetries THEN "retry"
    ELSE "true"

\* Mutant of CloseVerdict: the closer retries as long as it has not succeeded.
CloseVerdictNeverGivesUp(token, code, absent, attempt) ==
    IF token = "raises" THEN "raise"
    ELSE IF token = "request_error" \/ code = 0 THEN "retry"
    ELSE IF code \in {200, 204} THEN "true"
    ELSE IF code \in {404, 409} /\ absent THEN "true"
    ELSE "retry"

\* Mutant of CloseVerdict: one attempt more than max_retries.
CloseVerdictExtraAttempt(token, code, absent, attempt) ==
    IF token = "raises" THEN "raise"
    ELSE IF token = "request_error" \/ code = 0
    THEN (IF attempt <= CloseMaxRetries THEN "retry" ELSE "false")
    ELSE IF code \in {200, 204} THEN "true"
    ELSE IF code \in {404, 409} /\ absent THEN "true"
    ELSE IF attempt <= CloseMaxRetries THEN "retry"
    ELSE "false"

\* How one attempt of close_filled_position_safe ends. token is the outcome of
\* tl.get_access_token() ("ok", "request_error": it raises a
\* requests.RequestException, "raises": it raises another exception), code the
\* status of the DELETE (0: RequestException), absent the answer of
\* _position_absent.
CloseVerdict(token, code, absent, attempt) ==
    IF token = "raises" THEN "raise"
    ELSE IF token = "request_error" \/ code = 0
    THEN (IF attempt < CloseMaxRetries THEN "retry" ELSE "false")
    ELSE IF code \in {200, 204} THEN "true"
    ELSE IF code \in {404, 409} /\ absent THEN "true"
    ELSE IF attempt < CloseMaxRetries THEN "retry"
    ELSE "false"

\* One iteration of the retry loop of close_filled_position_safe and, when the
\* closer ends, the rest of step 2: a closed position closes the ledger row and
\* gives SUCCESS; a False or raising closer raises inside the try of step 2,
\* whose handler counts the account as failed and sets no result, so that the
\* "nothing happened" check after it records NO_POSITION_FOUND and counts it.
\* gone: the broker drops the position while it answers 404 or 409.
CloseAttempt(w, token, code, gone, recheck_ok, target) ==
    /\ rt[w].pc = "close"
    /\ LET a == Acct(w)
           r == rt[w]
           pos == r.positions[r.close_pos]
           sent == token = "ok"
           removed == sent /\ (code \in {200, 204} \/ (code \in {404, 409} /\ gone))
           left == IF removed THEN Without(b_positions[a], pos.id) ELSE b_positions[a]
           rechecked == sent /\ code \in {404, 409}
           absent == recheck_ok /\ pos.id \notin Ids(left)
           verdict == CloseVerdict(token, code, absent, r.attempt)
           made == Metered((IF FetchesToken(r.attempt) THEN 1 ELSE 0)
                           + (IF sent THEN 1 ELSE 0)
                           + (IF rechecked THEN 1 ELSE 0))
           tr == [r.trace EXCEPT
                     !.attempt = r.attempt,
                     !.tokens = IF FetchesToken(r.attempt) THEN @ + 1 ELSE @,
                     !.deletes = IF sent THEN @ + 1 ELSE @,
                     !.code = IF sent THEN code ELSE -1,
                     !.absent = IF ~rechecked THEN "unchecked"
                                ELSE IF absent THEN "absent"
                                ELSE IF recheck_ok THEN "present" ELSE "error"]
       IN  /\ (sent /\ code \in {200, 204}) => pos.id \in Ids(b_positions[a])
           \* inputs the attempt does not read are left at their defaults
           /\ ~sent => code = 0
           /\ ~rechecked => (~gone /\ recheck_ok)
           /\ verdict # "true" => target = NoRow
           /\ b_positions' = [b_positions EXCEPT ![a] = left]
           /\ broker_calls' = broker_calls
                 \cup (IF FetchesToken(r.attempt)
                       THEN {[endpoint |-> "access_token", throttled |-> FALSE]}
                       ELSE {})
                 \cup (IF sent THEN {[endpoint |-> "close_position", throttled |-> FALSE]}
                       ELSE {})
                 \cup (IF rechecked THEN {[endpoint |-> "positions", throttled |-> FALSE]}
                       ELSE {})
           /\ CASE verdict = "true" ->
                     /\ target \in CloseTargets(a, r.sig)
                     /\ trades' = CloseTradeInDb(target, "POSITION_CLOSED", pos.id, 0,
                                                 pos.pl)
                     /\ rt' = [rt EXCEPT ![w] = NextAccount(
                            [r EXCEPT !.account_results[a] =
                                          [status |-> "SUCCESS",
                                           action |-> "POSITION_CLOSED", id |-> pos.id],
                                      !.successful_count = @ + 1,
                                      !.calls = @ + made,
                                      !.calls_ok = @ /\ code \in {200, 204},
                                      !.trace = [tr EXCEPT !.close = "ok"]])]
                [] verdict = "retry" ->
                     \* time.sleep(backoff); backoff *= 1.5; continue
                     /\ rt' = [rt EXCEPT ![w].attempt = @ + 1,
                                         ![w].trace = [tr EXCEPT !.sleeps = @ + 1,
                                                                 !.slept = r.backoff],
                                         ![w].calls = @ + made,
                                         ![w].calls_ok = FALSE,
                                         ![w].backoff = (@ * 15) \div 10]
                     /\ UNCHANGED trades
                [] OTHER ->
                     /\ rt' = [rt EXCEPT ![w] = NextAccount(
                            [r EXCEPT !.failed_count = @ + 1,
                                      !.calls = @ + made,
                                      !.calls_ok = FALSE,
                                      !.account_results[a] =
                                          [status |-> "NO_POSITION_FOUND", action |-> "",
                                           id |-> 0],
                                      !.no_position_count = @ + 1,
                                      !.trace = [tr EXCEPT !.close =
                                          IF verdict = "raise" THEN "raised"
                                          ELSE "failed"]])]
                     /\ UNCHANGED trades
    /\ UNCHANGED <<b_orders, instrument_cache, signals_seen, rateVars, opening, inst_fetches>>

\* Mutant of EntryValid: the lot size is not validated.
EntryValidAnyLot(lot_size, entry_price, trade_id) ==
    /\ trade_id # ""
    /\ entry_price > 0

\* validate_trade_parameters(lot_size, entry_price, trade_id): no errors
EntryValid(lot_size, entry_price, trade_id) ==
    /\ trade_id # ""
    /\ lot_size > 0
    /\ entry_price > 0

\* handle_entry_signal up to the account loop
ReceiveEntry(w, sig) ==
    /\ \/ rt[w].pc = "idle"
       \/ rt[w].pc = "responded" /\ signals_seen < run.max_signals
    /\ signals_seen' = signals_seen + 1
    /\ LET s == [kind |-> sig.kind, symbol |-> sig.symbol,
                 side |-> IF sig.kind = "BUY" THEN "buy" ELSE "sell",
                 lot_size |-> sig.lot_size, trade_id |-> sig.trade_id,
                 entry_price |-> sig.entry_price]
       IN  IF EntryValid(sig.lot_size, sig.entry_price, sig.trade_id)
           THEN rt' = [rt EXCEPT ![w] = NextAccount([IdleWorker EXCEPT
                                                        !.sig = s,
                                                        !.seq = signals_seen + 1])]
           ELSE rt' = [rt EXCEPT ![w] = [IdleWorker EXCEPT !.sig = s, !.pc = "responded",
                                                           !.response = [code |-> 400]]]
    /\ UNCHANGED <<b_orders, b_positions, instrument_cache, trades, broker_calls, rateVars, opening, inst_fetches>>

\* save_trade_to_db: INSERT OR REPLACE on UNIQUE(trade_id, account_name)
SaveTradeToDb(row) ==
    {t \in trades : ~(t.trade_id = row.trade_id /\ t.account_name = row.account_name)}
        \cup {row}

\* created_at is DEFAULT CURRENT_TIMESTAMP, a time in whole seconds: the rows of
\* an account are stamped 1, 2, ... and a row inserted within the second of the
\* latest one gets the same stamp. The latest stamp among the account's rows:
LatestStamp(a) ==
    LET stamps == {t.created_at : t \in {u \in trades : u.account_name = a}}
    IN  IF stamps = {} THEN 0
        ELSE CHOOSE m \in stamps : \A x \in stamps : x <= m

\* Mutant of PlaceLimitOrder: the order is submitted before the instrument id
\* is looked at.
PlaceLimitOrderSubmitsAnyway(inst, created) ==
    IF inst = "raises" THEN [submits |-> 0, outcome |-> "raised"]
    ELSE IF inst = "missing" THEN [submits |-> 1, outcome |-> "symbol_not_found"]
    ELSE IF created = "raises" THEN [submits |-> 1, outcome |-> "raised"]
    ELSE IF created = "none" THEN [submits |-> 1, outcome |-> "order_rejected"]
    ELSE [submits |-> 1, outcome |-> "order_id"]

\* place_limit_order: inst is what tl.get_instrument_id_from_symbol_name gives
\* ("found", "missing": a falsy id, "raises"), created what tl.create_order
\* gives ("id", "none", "raises"). submits counts the create_order calls;
\* outcome: the order id is returned, or the exception that is raised.
PlaceLimitOrder(inst, created) ==
    IF inst = "raises" THEN [submits |-> 0, outcome |-> "raised"]
    ELSE IF inst = "missing" THEN [submits |-> 0, outcome |-> "symbol_not_found"]
    ELSE IF created = "raises" THEN [submits |-> 1, outcome |-> "raised"]
    ELSE IF created = "none" THEN [submits |-> 1, outcome |-> "order_rejected"]
    ELSE [submits |-> 1, outcome |-> "order_id"]

\* One iteration of the account loop of handle_entry_signal: place_limit_order
\* (instrument lookup, then tl.create_order), save_trade_to_db, SUCCESS; any
\* exception gives FAILED. inst and created are the outcomes of the two broker
\* calls, db_ok whether save_trade_to_db returns, same_second whether the row
\* is inserted within the second of the account's latest row.
EntryAccount(w, inst, created, db_ok, same_second) ==
    /\ rt[w].pc = "entry"
    /\ LET a == Acct(w)
           r == rt[w]
           p == PlaceLimitOrder(inst, created)
           submitted == p.submits > 0
           placed == p.outcome = "order_id"
           tr == [NoTrace EXCEPT !.account = a, !.submits = p.submits,
                                 !.placing = p.outcome]
           order_id == 30 + r.seq
           row == [id |-> 10 * r.seq + r.idx, trade_id |-> r.sig.trade_id,
                   account_name |-> a, symbol |-> r.sig.symbol, side |-> r.sig.side,
                   lot_size |-> r.sig.lot_size, order_id |-> order_id,
                   status |-> "PENDING",
                   created_at |-> IF same_second THEN LatestStamp(a)
                                  ELSE LatestStamp(a) + 1,
                   close_method |-> None, close_position_id |-> 0,
                   close_order_id |-> 0, realized_pnl |-> 0]
       IN  \* no row is stamped unless it is inserted, none before the first
           /\ same_second => (placed /\ db_ok /\ LatestStamp(a) > 0)
           \* inputs the iteration does not read are left at their defaults
           /\ inst # "found" => created = "id"
           /\ ~placed => db_ok
           /\ b_orders' = IF placed
                          THEN [b_orders EXCEPT ![a] =
                                   Append(@, Order(order_id, 1, r.sig.side, r.sig.lot_size))]
                          ELSE b_orders
           /\ broker_calls' = broker_calls
                 \cup {[endpoint |-> "instrument_id", throttled |-> FALSE]}
                 \cup (IF submitted THEN {[endpoint |-> "create_order", throttled |-> FALSE]}
                       ELSE {})
           /\ trades' = IF placed /\ db_ok THEN SaveTradeToDb(row) ELSE trades
           /\ rt' = [rt EXCEPT ![w] = NextAccount(
                  IF placed /\ db_ok
                  THEN [r EXCEPT !.account_results[a] =
                                     [status |-> "SUCCESS", action |-> "ORDER_PLACED",
                                      id |-> order_id],
                                 !.trace = tr,
                                 !.calls = @ + Metered(1 + p.submits),
                                 !.successful_count = @ + 1]
                  ELSE [r EXCEPT !.account_results[a] =
                                     [status |-> "FAILED", action |-> "", id |-> 0],
                                 !.trace = tr,
                                 !.calls = @ + Metered(1 + p.submits),
                                 !.calls_ok = FALSE,
                                 !.failed_count = @ + 1])]
    /\ UNCHANGED <<b_positions, instrument_cache, signals_seen, rateVars, opening, inst_fetches>>

\* the summary and the 200 response of handle_exit_signal / handle_entry_signal
Respond(w) ==
    /\ rt[w].pc = "respond"
    /\ rt' = [rt EXCEPT ![w].pc = "responded",
                        ![w].trace = NoTrace,
                        ![w].response =
                            IF rt[w].sig.kind = "CLOSE"
                            THEN [code |-> 200,
                                  total_accounts |-> Len(active_accounts),
                                  successful_closes |-> rt[w].successful_count,
                                  no_position_found |-> rt[w].no_position_count,
                                  failed |-> rt[w].failed_count]
                            ELSE [code |-> 200,
                                  total_accounts |-> Len(active_accounts),
                                  successful |-> rt[w].successful_count,
                                  failed |-> rt[w].failed_count]]
    /\ UNCHANGED <<b_orders, b_positions, instrument_cache, trades, broker_calls,
                   signals_seen, rateVars, opening, inst_fetches>>

RouterNext ==
    \/ \E w \in DOMAIN rt, sig \in ExitSignals : ReceiveExit(w, sig)
    \/ \E w \in DOMAIN rt, sig \in EntrySignals : ReceiveEntry(w, sig)
    \/ \E w \in DOMAIN rt, script \in run.scripts : ExitPullOrders(w, script)
    \/ \E w \in DOMAIN rt, script \in run.scripts : ExitPullPositions(w, script)
    \/ \E w \in DOMAIN rt : ExitPrefetchCheck(w)
    \/ \E w \in DOMAIN rt, script \in run.scripts : ExitPrefetch(w, script)
    \/ \E w \in DOMAIN rt, script \in run.scripts, success \in BOOLEAN,
          target \in trades \cup {NoRow} : ExitStep1(w, script, success, target)
    \/ \E w \in DOMAIN rt : ExitStep2(w)
    \/ \E w \in DOMAIN rt, token \in run.tokens,
          code \in run.codes, gone \in BOOLEAN, recheck_ok \in BOOLEAN,
          target \in trades \cup {NoRow} :
              CloseAttempt(w, token, code, gone, recheck_ok, target)
    \/ \E w \in DOMAIN rt, inst \in {"found", "missing", "raises"},
          created \in {"id", "none", "raises"}, db_ok \in BOOLEAN,
          same_second \in BOOLEAN :
              EntryAccount(w, inst, created, db_ok, same_second)
    \/ \E w \in DOMAIN rt : Respond(w)

\* one signal handled by one request thread, three active accounts
RouterInit ==
    /\ RouterStart(<<"A", "B", "C">>, {"w1"})
    /\ RateStart({})
    /\ run = RouterRun(ExecScripts, CloseTokens, CloseResponses, 0)

\* concurrent callers of the rate limiter and the executor
SpecRate == RateInit /\ [][RateNext]_vars

\* one caller of the executor
SpecExec == ExecInit /\ [][RateNext]_vars

\* Scheduling of the callers of _respect_rate_limit: time passes, and a thread
\* that can take its next step again and again takes it; that is, a running
\* thread goes on and a thread waiting for _last_call_lock gets it if the lock
\* is free again and again.
ThrottleStep(t) == RateNow(t) \/ RateLock(t) \/ RateSleep(t) \/ RateRecord(t)

ThrottleFairness ==
    /\ WF_vars(Tick)
    /\ \A t \in Threads : SF_vars(ThrottleStep(t))

\* concurrent callers as in RateInit, the times of the req_fn() invocations
\* not kept
ThrottleInit ==
    /\ RateStart(Threads)
    /\ run = [max_attempts |-> {1},
              exceptions |-> {e \in FnExceptions : e.status = 0 \/
                                 (e.status = 429 /\ e.retry_after # -1)},
              scripts |-> {}, tokens |-> {}, codes |-> {}, max_signals |-> 0,
              metered |-> FALSE, timed |-> FALSE]
    /\ RouterIdle

\* concurrent callers of the rate limiter under that scheduling
SpecThrottle == ThrottleInit /\ [][RateNext]_vars /\ ThrottleFairness

\* the signal router
SpecRouter == RouterInit /\ [][RouterNext]_vars

\* one signal handled by one request thread, one active account
CloserInit ==
    /\ RouterStart(<<"A">>, {"w1"})
    /\ RateStart({})
    /\ run = RouterRun(ExecScripts, CloseTokens, CloseResponses, 0)

\* the router over one account, for close_filled_position_safe
SpecCloser == CloserInit /\ [][RouterNext]_vars

\* one signal handled by one request thread; one, two or three accounts are
\* active and hold the same kind of books
AccountsInit ==
    /\ \E accounts \in {<<"A">>, <<"A", "B">>, <<"A", "B", "C">>} :
           RouterStart(accounts, {"w1"})
    /\ \A a \in AccountNames : b_opening[a] = b_opening["A"]
    /\ RateStart({})
    /\ run = RouterRun(ExecScripts, CloseTokens, CloseResponses, 0)

\* the router over any number of active accounts
SpecAccounts == AccountsInit /\ [][RouterNext]_vars

\* two request threads of the threaded server, one signal each, one active
\* account
ConcurrentInit ==
    /\ RouterStart(<<"A">>, {"w1", "w2"})
    /\ \A a \in AccountNames : b_opening[a] = b_opening["A"]
    /\ RateStart({})
    /\ run = RouterRun({ScriptOk, ScriptExhausted}, {"ok"}, {200, 503}, 0)

\* two signals handled concurrently
SpecConcurrent == ConcurrentInit /\ [][RouterNext]_vars

\* up to MaxSignals signals handled one after the other on one account; the
\* executor's calls succeed, the DELETE of a position answers 200 or 503
LedgerInit ==
    /\ RouterStart(<<"A">>, {"w1"})
    /\ \A a \in AccountNames : b_opening[a] = b_opening["A"]
    /\ RateStart({})
    /\ run = RouterRun({ScriptOk}, {"ok"}, {200, 503}, MaxSignals)

\* sequences of entry and exit signals and the trades table
SpecLedger == LedgerInit /\ [][RouterNext]_vars

\* one signal on one account whose orders and positions differ from the
\* signal in the quantity only; the pulls succeed, a cancel succeeds or fails,
\* the DELETE of a position answers 200 or 503
MatcherInit ==
    /\ \E book \in MatcherBooks : b_opening = [a \in AccountNames |-> book]
    /\ RouterStartAt(<<"A">>, {"w1"})
    /\ RateStart({})
    /\ run = RouterRun({ScriptOk}, {"ok"}, {200, 503}, 0)

\* the matcher over quantities near the signal's
SpecMatcher == MatcherInit /\ [][RouterNext]_vars

\* one signal handled by one request thread on one or two active accounts of
\* the same kind of books, the broker calls of the signal counted
CompletionInit ==
    /\ \E accounts \in {<<"A">>, <<"A", "B">>} : RouterStart(accounts, {"w1"})
    /\ \A a \in AccountNames : b_opening[a] = b_opening["A"]
    /\ RateStart({})
    /\ run = [RouterRun(ExecScripts, CloseTokens, CloseResponses, 0)
                  EXCEPT !.metered = TRUE]

\* the request thread goes on as long as it has a step to take: every broker
\* call and every ledger call returns or fails, every sleep ends
SpecCompletion == CompletionInit /\ [][RouterNext]_vars /\ WF_vars(RouterNext)

\* A ledger row left open by an earlier run of the process (trades.db outlives
\* the process): an EURUSD buy of 1.0 lot on account A.
OpenRow(id, trade_id, stamp) ==
    [id |-> id, trade_id |-> trade_id, account_name |-> "A", symbol |-> "EURUSD",
     side |-> "buy", lot_size |-> 10000, order_id |-> id, status |-> "PENDING",
     created_at |-> stamp, close_method |-> None, close_position_id |-> 0,
     close_order_id |-> 0, realized_pnl |-> 0]

\* The books of an account that holds exactly one position and no order of
\* EURUSD buy 1.0.
RaceBook ==
    [orders |-> <<Order(11, 2, "buy", 10000), Order(12, 1, "buy", 20000)>>,
     positions |-> <<Position(21, 1, "sell", 10000, 0),
                     Position(22, 1, "buy", 10000, 7)>>]

\* two request threads, one signal each, on one account that holds one
\* EURUSD buy position and one or two open ledger rows of it; the executor's
\* calls succeed, the DELETE of a position answers 200 or 404
RaceInit ==
    /\ b_opening = [a \in AccountNames |-> RaceBook]
    /\ active_accounts = <<"A">>
    /\ b_orders = [a \in AccountNames |-> b_opening[a].orders]
    /\ b_positions = [a \in AccountNames |-> b_opening[a].positions]
    /\ instrument_cache = [a \in AccountNames |-> "absent"]
    /\ trades \in {{OpenRow(1, "T1", 1)}, {OpenRow(1, "T1", 1), OpenRow(2, "T2", 2)}}
    /\ rt = [w \in {"w1", "w2"} |-> IdleWorker]
    /\ broker_calls = {}
    /\ signals_seen = 0
    /\ inst_fetches = [a \in AccountNames |-> 0]
    /\ RateStart({})
    /\ run = RouterRun({ScriptOk}, {"ok"}, {200, 404}, 0)

\* two signals racing for one position
SpecRace == RaceInit /\ [][RouterNext]_vars

\* ------------------------------------------------------------------------
\* Exit and entry routing
\* ------------------------------------------------------------------------

\* the worker has finished account a of the signal it handles and has not yet
\* pulled the next account's orders or built the response
LeftAccount(w, a) ==
    /\ rt[w].trace.account = a
    /\ rt[w].pc \in {"orders", "respond"}

\* the worker has finished the first account of the loop and no other, so that
\* the counters hold that account's share only
LeftFirstAccount(w, a) ==
    /\ LeftAccount(w, a)
    /\ a = active_accounts[1]
    /\ rt[w].pc = "orders"
    /\ rt[w].idx = 2

\* C1 (as claimed): while an exit signal is processed on an account, once an
\* order of the account has matched the signal, no position of that account is
\* selected and no close is attempted, whatever the cancellation returned.
C1_OrderMatchEndsSearch ==
    \A w \in DOMAIN rt :
        rt[w].trace.order_matched =>
            /\ ~rt[w].trace.position_matched
            /\ rt[w].trace.close = "none"

\* C2 (as claimed): when the cancellation of the matched order returns false,
\* the account's result status is FAILED and the account is counted in failed
\* only.
C2_FailedCancelIsFailure ==
    \A w \in DOMAIN rt : \A a \in AccountNames :
        (LeftAccount(w, a) /\ rt[w].trace.cancel = "failed") =>
            /\ rt[w].account_results[a].status = "FAILED"
            /\ LeftFirstAccount(w, a) =>
                   /\ rt[w].failed_count = 1
                   /\ rt[w].successful_count = 0
                   /\ rt[w].no_position_count = 0

\* C3 (as claimed): when close_filled_position_safe returns False for the
\* matched position, the account's result status is FAILED and the account is
\* counted in failed only.
C3_FailedCloseIsFailure ==
    \A w \in DOMAIN rt : \A a \in AccountNames :
        (LeftAccount(w, a) /\ rt[w].trace.close = "failed") =>
            /\ rt[w].account_results[a].status = "FAILED"
            /\ LeftFirstAccount(w, a) =>
                   /\ rt[w].failed_count = 1
                   /\ rt[w].successful_count = 0
                   /\ rt[w].no_position_count = 0

\* C4: for a validated entry or exit signal the loop visits every active
\* account in turn, each account it has left has its one result (SUCCESS,
\* FAILED or NO_POSITION_FOUND), no later account has one yet, and the 200
\* response is built only when all active accounts have theirs, whatever failed
\* on the way.
C4_EveryAccountHasResult ==
    \A w \in DOMAIN rt :
        LET r == rt[w]
            n == Len(active_accounts)
            HasResult(i) == r.account_results[active_accounts[i]].status
                                \in {"SUCCESS", "FAILED", "NO_POSITION_FOUND"}
            Unset(i) == r.account_results[active_accounts[i]] = NoResult
        IN  /\ (r.pc = "respond" \/ (r.pc = "responded" /\ r.response.code = 200)) =>
                   \A i \in 1..n : HasResult(i)
            /\ r.pc \in {"orders", "positions", "instruments", "fetch", "step1", "step2",
                         "close", "entry"} =>
                   /\ r.idx \in 1..n
                   /\ \A i \in 1..(r.idx - 1) : HasResult(i)
                   /\ \A i \in r.idx..n : Unset(i)

\* an entry signal answered with 200 whose first account failed and whose last
\* account was served
C4_Witness ==
    \E w \in DOMAIN rt :
        /\ rt[w].pc = "responded"
        /\ rt[w].response.code = 200
        /\ rt[w].sig.kind = "BUY"
        /\ rt[w].account_results[active_accounts[1]].status = "FAILED"
        /\ rt[w].account_results[active_accounts[Len(active_accounts)]].status = "SUCCESS"
        /\ rt[w].failed_count >= 1

\* a row of the broker's books that the signal names: same symbol, side and
\* quantity
Names(sig, row) ==
    /\ row.inst \in DOMAIN InstrumentTable
    /\ InstrumentTable[row.inst] = sig.symbol
    /\ row.side = sig.side
    /\ row.qty = sig.lot_size

HadOrder(a, sig) ==
    \E i \in 1..Len(b_opening[a].orders) : Names(sig, b_opening[a].orders[i])

HadPosition(a, sig) ==
    \E i \in 1..Len(b_opening[a].positions) : Names(sig, b_opening[a].positions[i])

\* C5: when every broker call of an exit signal succeeds, an account that had
\* a matching pending order gets ORDER_CANCELLED, one that had a matching
\* position and no matching order gets POSITION_CLOSED, one with neither gets
\* NO_POSITION_FOUND, and the summary counts the first two kinds as
\* successful_closes, the third as no_position_found, and failed = 0.
C5_ExitOutcomes ==
    \A w \in DOMAIN rt :
        LET r == rt[w]
            accounts == {active_accounts[i] : i \in 1..Len(active_accounts)}
            withOrder == {a \in accounts : HadOrder(a, r.sig)}
            withPosition == {a \in accounts \ withOrder : HadPosition(a, r.sig)}
            withNeither == accounts \ (withOrder \cup withPosition)
        IN  (r.pc = "responded" /\ r.response.code = 200 /\ r.sig.kind = "CLOSE"
             /\ r.calls_ok) =>
                /\ \A a \in withOrder :
                       /\ r.account_results[a].status = "SUCCESS"
                       /\ r.account_results[a].action = "ORDER_CANCELLED"
                /\ \A a \in withPosition :
                       /\ r.account_results[a].status = "SUCCESS"
                       /\ r.account_results[a].action = "POSITION_CLOSED"
                /\ \A a \in withNeither :
                       r.account_results[a].status = "NO_POSITION_FOUND"
                /\ r.response.successful_closes =
                       Cardinality(withOrder) + Cardinality(withPosition)
                /\ r.response.no_position_found = Cardinality(withNeither)
                /\ r.response.failed = 0

\* accounts A, B, C of one kind each, answered with 2, 1, 0
C5_Witness ==
    \E w \in DOMAIN rt :
        /\ rt[w].pc = "responded"
        /\ rt[w].calls_ok
        /\ rt[w].sig.kind = "CLOSE"
        /\ active_accounts = <<"A", "B", "C">>
        /\ HadOrder("A", rt[w].sig)
        /\ ~HadOrder("B", rt[w].sig) /\ HadPosition("B", rt[w].sig)
        /\ ~HadOrder("C", rt[w].sig) /\ ~HadPosition("C", rt[w].sig)
        /\ rt[w].account_results["A"].action = "ORDER_CANCELLED"
        /\ rt[w].account_results["B"].action = "POSITION_CLOSED"
        /\ rt[w].account_results["C"].status = "NO_POSITION_FOUND"
        /\ rt[w].response.successful_closes = 2
        /\ rt[w].response.no_position_found = 1
        /\ rt[w].response.failed = 0

\* ------------------------------------------------------------------------
\* close_filled_position_safe
\* ------------------------------------------------------------------------

\* C11 (as claimed): close_filled_position_safe never raises, whatever the
\* token fetch, the DELETE and the position re-check do; it returns a boolean,
\* and False once max_retries attempts are used up.
C11_CloserNeverRaises ==
    \A w \in DOMAIN rt :
        /\ rt[w].trace.close # "raised"
        /\ rt[w].trace.close = "failed" => rt[w].trace.attempt = CloseMaxRetries
        /\ rt[w].trace.attempt <= CloseMaxRetries

\* C12: after a 409 the position is always re-checked; absent gives success
\* (on the last attempt too); otherwise the closer retries with a longer
\* backoff while attempts remain and returns False when none remain.
C12_ConflictRechecks ==
    \A w \in DOMAIN rt :
        LET r == rt[w]
            t == r.trace
        IN  t.code = 409 =>
                /\ t.absent # "unchecked"
                /\ t.absent = "absent" => t.close = "ok"
                /\ (t.absent # "absent" /\ t.attempt < CloseMaxRetries) =>
                       /\ t.close = "none"
                       /\ r.pc = "close"
                       /\ r.attempt = t.attempt + 1
                       /\ r.backoff > 800
                /\ (t.absent # "absent" /\ t.attempt >= CloseMaxRetries) =>
                       t.close = "failed"

\* a 409 on the last attempt with the position gone: success
C12_Witness ==
    \E w \in DOMAIN rt :
        /\ rt[w].trace.code = 409
        /\ rt[w].trace.absent = "absent"
        /\ rt[w].trace.attempt = CloseMaxRetries
        /\ rt[w].trace.close = "ok"
        /\ rt[w].account_results[rt[w].trace.account].action = "POSITION_CLOSED"

\* C13: after a 404 the position is re-checked and only an absent position
\* gives success; with the position still listed, or the re-check failing, the
\* closer retries while attempts remain and returns False when none remain.
C13_NotFoundNeedsAbsence ==
    \A w \in DOMAIN rt :
        LET r == rt[w]
            t == r.trace
        IN  t.code = 404 =>
                /\ t.absent # "unchecked"
                /\ t.close = "ok" <=> t.absent = "absent"
                /\ (t.absent # "absent" /\ t.attempt < CloseMaxRetries) =>
                       /\ t.close = "none"
                       /\ r.pc = "close"
                       /\ r.attempt = t.attempt + 1
                /\ (t.absent # "absent" /\ t.attempt >= CloseMaxRetries) =>
                       t.close = "failed"

\* a 404 on the first attempt with the position still listed: a retry
C13_Witness ==
    \E w \in DOMAIN rt :
        /\ rt[w].trace.code = 404
        /\ rt[w].trace.absent = "present"
        /\ rt[w].trace.close = "none"
        /\ rt[w].pc = "close"
        /\ rt[w].attempt = 2

\* C14: every attempt of the closer fetches the access token itself: the token
\* fetches made for a position number the attempts started, and no DELETE is
\* sent without the fetch of its attempt.
C14_TokenPerAttempt ==
    \A w \in DOMAIN rt :
        LET r == rt[w]
            t == r.trace
        IN  /\ t.tokens = t.attempt
            /\ t.deletes <= t.tokens
            /\ r.pc = "close" => r.attempt = t.attempt + 1

\* a second attempt that sent its DELETE, with two token fetches
C14_Witness ==
    \E w \in DOMAIN rt :
        /\ rt[w].trace.attempt = 2
        /\ rt[w].trace.tokens = 2
        /\ rt[w].trace.deletes = 2

\* C27: close_filled_position_safe has returned True (and the router recorded
\* POSITION_CLOSED) only after a DELETE of that call answered 200/204, or
\* answered 404 or 409 and the position re-check that followed found the
\* position absent; an auth rejection, a server error, another status, a
\* transport failure or a failed token fetch never ends in True.
C27_TrueOnlyWhenClosed ==
    \A w \in DOMAIN rt :
        LET t == rt[w].trace
        IN  /\ t.close = "ok" =>
                  /\ t.deletes >= 1
                  /\ \/ t.code \in {200, 204}
                     \/ t.code \in {404, 409} /\ t.absent = "absent"
            /\ (t.account # "" /\ rt[w].sig.kind = "CLOSE"
                   /\ rt[w].account_results[t.account].action = "POSITION_CLOSED") =>
                  t.close = "ok"
            /\ (t.attempt >= 1 /\ t.code \notin {200, 204, 404, 409}) => t.close # "ok"

\* a 503 on the first attempt, a 200 on the second: True
C27_Witness ==
    \E w \in DOMAIN rt :
        /\ rt[w].trace.close = "ok" /\ rt[w].trace.code = 200
        /\ rt[w].trace.attempt = 2 /\ rt[w].trace.deletes = 2
        /\ rt[w].trace.sleeps = 1

\* the backoff value after k retries: 0.8 s (in ms), times 1.5 per retry
RECURSIVE BackoffAfter(_)
BackoffAfter(k) == IF k = 0 THEN 800 ELSE (BackoffAfter(k - 1) * 15) \div 10

\* C28: one call of the closer makes at most max_retries attempts and sends at
\* most max_retries DELETEs; it sleeps its backoff once per retry, between two
\* attempts, and not after its last attempt; whatever caused the retry, the
\* value slept is 0.8 s at the first retry and the backoff is multiplied by
\* 1.5 at each retry.
C28_BoundedAttemptsSharedBackoff ==
    \A w \in DOMAIN rt :
        LET r == rt[w]
            t == r.trace
        IN  /\ t.deletes <= CloseMaxRetries
            /\ t.attempt <= CloseMaxRetries
            /\ t.deletes <= t.attempt
            /\ r.pc = "close" =>
                  /\ t.sleeps = t.attempt
                  /\ r.backoff = BackoffAfter(t.sleeps)
            /\ (t.close # "none") => t.sleeps = t.attempt - 1
            /\ t.sleeps >= 1 => t.slept = BackoffAfter(t.sleeps - 1)

\* the closer has failed after its last attempt: two DELETEs, one sleep of
\* 0.8 s between them
C28_Witness ==
    \E w \in DOMAIN rt :
        /\ rt[w].trace.close = "failed"
        /\ rt[w].trace.deletes = CloseMaxRetries
        /\ rt[w].trace.sleeps = CloseMaxRetries - 1
        /\ rt[w].trace.slept = 800

\* ------------------------------------------------------------------------
\* Validation, degraded pulls, throttle exhaustion, instrument cache
\* ------------------------------------------------------------------------

\* C15: a signal that fails validation (entry: empty trade id, lot size <= 0
\* or price <= 0; exit: empty symbol, side other than buy/sell in any case, or
\* lot size <= 0)
\* is answered 400 before any account is touched: no broker call, no ledger
\* row, no account result, whatever the number of active accounts.
C15_RejectedBeforeAccounts ==
    \A w \in DOMAIN rt :
        LET r == rt[w]
            invalid ==
                IF r.sig.kind = "CLOSE"
                THEN r.sig.symbol = "" \/ r.sig.side \notin {"buy", "sell"}
                         \/ r.sig.lot_size <= 0
                ELSE r.sig.trade_id = "" \/ r.sig.lot_size <= 0
                         \/ r.sig.entry_price <= 0
        IN  (r.sig # NoSignal /\ invalid) =>
                /\ r.pc = "responded"
                /\ r.response = [code |-> 400]
                /\ broker_calls = {}
                /\ trades = {}
                /\ \A a \in AccountNames :
                       /\ r.account_results[a] = NoResult
                       /\ b_orders[a] = b_opening[a].orders
                       /\ b_positions[a] = b_opening[a].positions

\* an entry signal with lot size 0 rejected with three active accounts
C15_Witness ==
    \E w \in DOMAIN rt :
        /\ rt[w].pc = "responded"
        /\ rt[w].response.code = 400
        /\ rt[w].sig.kind = "BUY"
        /\ rt[w].sig.lot_size = 0
        /\ Len(active_accounts) = 3
        /\ broker_calls = {}

\* C16: in exit processing a failed orders pull leaves the order search empty
\* and a failed positions pull leaves the position search empty, each on its
\* own: without the orders a matching position is still found (and, when the
\* close succeeds, closed), without the positions a matching order is still
\* found (and, when the cancel succeeds, cancelled), without both the result
\* is NO_POSITION_FOUND; the account gets its result and the loop goes on.
C16_PullFailureIsEmptySearch ==
    \A w \in DOMAIN rt : \A a \in AccountNames :
        LET r == rt[w]
            t == r.trace
            res == r.account_results[a]
            cached == instrument_cache[a] = "table"
        IN  (LeftAccount(w, a) /\ r.sig.kind = "CLOSE") =>
                /\ ~t.orders_ok => (~t.order_matched /\ t.cancel = "none")
                /\ ~t.positions_ok => (~t.position_matched /\ t.close = "none")
                /\ (~t.orders_ok /\ ~t.positions_ok) => res.status = "NO_POSITION_FOUND"
                /\ (~t.orders_ok /\ t.positions_ok /\ cached /\ HadPosition(a, r.sig)) =>
                       /\ t.position_matched
                       /\ t.close = "ok" => res.action = "POSITION_CLOSED"
                /\ (t.orders_ok /\ ~t.positions_ok /\ cached /\ HadOrder(a, r.sig)) =>
                       /\ t.order_matched
                       /\ t.cancel = "ok" => res.action = "ORDER_CANCELLED"
                /\ res.status \in {"SUCCESS", "NO_POSITION_FOUND"}

\* the orders pull failed on the first account, its position was closed all
\* the same, and the worker is at the next account
C16_Witness ==
    \E w \in DOMAIN rt :
        /\ rt[w].pc = "orders"
        /\ rt[w].idx = 2
        /\ rt[w].trace.account = "A"
        /\ ~rt[w].trace.orders_ok
        /\ rt[w].trace.positions_ok
        /\ rt[w].trace.close = "ok"
        /\ rt[w].account_results["A"].action = "POSITION_CLOSED"

\* C17 (as claimed): when _with_429_backoff runs out of attempts on a broker
\* call made for an account, that account's result status is FAILED and it is
\* counted in failed.
C17_ExhaustionIsFailure ==
    \A w \in DOMAIN rt : \A a \in AccountNames :
        (LeftAccount(w, a) /\ rt[w].trace.exhausted) =>
            /\ rt[w].account_results[a].status = "FAILED"
            /\ rt[w].failed_count >= 1

\* C18 (as claimed): whatever the order and interleaving of exit signals, the
\* instrument table of an account is fetched successfully at most once.
C18_InstrumentsFetchedOnce ==
    \A a \in AccountNames : inst_fetches[a] <= 1

\* C19: get_symbol_from_instrument_id gives the cached name when the account's
\* table lists the instrument and None when the account has no table or the
\* table does not list it; the matching steps that call it make no instrument
\* fetch and leave the instrument cache as it is.
C19_ResolveReadsCacheOnly ==
    [][ /\ \A a \in AccountNames :
              \A inst \in {b_opening[a].orders[i].inst : i \in 1..Len(b_opening[a].orders)}
                     \cup {b_opening[a].positions[i].inst :
                              i \in 1..Len(b_opening[a].positions)} :
                  GetSymbolFromInstrumentId(a, inst) =
                      IF instrument_cache[a] = "table" /\ inst \in DOMAIN InstrumentTable
                      THEN InstrumentTable[inst]
                      ELSE None
        /\ \A w \in DOMAIN rt :
              (rt[w].pc \in {"step1", "step2"} /\ rt'[w] # rt[w]) =>
                  /\ instrument_cache' = instrument_cache
                  /\ inst_fetches' = inst_fetches
                  /\ \A c \in broker_calls' \ broker_calls : c.endpoint = "delete_order"
      ]_vars

\* with the account's table missing, a pulled order of the signal's symbol,
\* side and quantity was not matched
C19_Witness ==
    \E w \in DOMAIN rt :
        /\ rt[w].pc = "step2"
        /\ rt[w].orders_ok
        /\ instrument_cache[Acct(w)] = "absent"
        /\ HadOrder(Acct(w), rt[w].sig)
        /\ ~rt[w].trace.order_matched

\* ------------------------------------------------------------------------
\* The trades table
\* ------------------------------------------------------------------------

\* C20 (as claimed): the trades table never holds two non-closed rows of one
\* (trade_id, account), and a row that has reached CLOSED stays in the table
\* exactly as it is, also when a later entry signal uses its trade id again.
C20_ClosedRowsImmutable ==
    [][ /\ \A t \in trades : t.status = "CLOSED" => t \in trades'
        /\ \A t1, t2 \in trades :
              (/\ t1.trade_id = t2.trade_id
               /\ t1.account_name = t2.account_name
               /\ t1.status # "CLOSED"
               /\ t2.status # "CLOSED") => t1 = t2
      ]_vars

\* the rows of account a that an exit signal names and that are not closed
OpenMatches(a, sig) ==
    {t \in trades : /\ t.account_name = a /\ t.symbol = sig.symbol
                    /\ t.side = sig.side /\ t.lot_size = sig.lot_size
                    /\ t.status # "CLOSED"}

\* C21: close_trade_in_db changes exactly one row, the most recently created
\* row (the one inserted last, of the highest id) of the account with the
\* signal's symbol, side and quantity that is not CLOSED, and only its status
\* and close fields; with no such row it changes nothing.
C21_ClosesMostRecentOpen ==
    [][ \A w \in DOMAIN rt :
           (rt[w].pc \in {"step1", "close"} /\ rt'[w] # rt[w]) =>
               LET open == OpenMatches(Acct(w), rt[w].sig)
               IN  /\ open = {} => trades' = trades
                   /\ trades' # trades =>
                         \E t \in open :
                             /\ \A o \in open : o.id <= t.id
                             /\ trades \ trades' = {t}
                             /\ \E n \in trades' :
                                   /\ trades' \ trades = {n}
                                   /\ n.status = "CLOSED"
                                   /\ n = [t EXCEPT
                                             !.status = n.status,
                                             !.close_method = n.close_method,
                                             !.close_position_id = n.close_position_id,
                                             !.close_order_id = n.close_order_id,
                                             !.realized_pnl = n.realized_pnl]
      ]_vars

\* C22: an exit result SUCCESS with action ORDER_CANCELLED (POSITION_CLOSED)
\* comes with a row of that account with the signal's symbol, side and quantity
\* that is CLOSED with that close method and the cancelled order's (closed
\* position's) id.
C22_SuccessUpdatesLedger ==
    \A w \in DOMAIN rt : \A a \in AccountNames :
        LET res == rt[w].account_results[a]
            sig == rt[w].sig
        IN  (/\ sig.kind = "CLOSE" /\ res.status = "SUCCESS"
             /\ res.action \in {"ORDER_CANCELLED", "POSITION_CLOSED"}) =>
                \E t \in trades :
                    /\ t.account_name = a /\ t.symbol = sig.symbol
                    /\ t.side = sig.side /\ t.lot_size = sig.lot_size
                    /\ t.status = "CLOSED" /\ t.close_method = res.action
                    /\ IF res.action = "ORDER_CANCELLED"
                       THEN t.close_order_id = res.id
                       ELSE t.close_position_id = res.id

\* ------------------------------------------------------------------------
\* Entry placement (place_limit_order)
\* ------------------------------------------------------------------------

\* C23: for the account an entry signal has just been handled on,
\* place_limit_order has called create_order at most once; with no instrument
\* id it has submitted nothing and the account has FAILED; with no identifier
\* from the broker the account has FAILED after one submission; an order id
\* that is returned is the id of the one order added to the account's orders;
\* whatever the outcome, the loop is at the next account or at the summary, and
\* at the summary every active account has a result.
C23_OneSubmissionPerAccount ==
    \A w \in DOMAIN rt :
        LET r == rt[w]
            a == r.trace.account
            res == r.account_results[a]
        IN  (r.sig.kind \in {"BUY", "SELL"} /\ r.pc \in {"entry", "respond"}) =>
              /\ r.pc = "respond" =>
                    \A k \in 1..Len(active_accounts) :
                        r.account_results[active_accounts[k]].status
                            \in {"SUCCESS", "FAILED"}
              /\ a # "" =>
                    /\ r.trace.submits <= 1
                    /\ r.trace.placing = "symbol_not_found" =>
                          (r.trace.submits = 0 /\ res.status = "FAILED")
                    /\ r.trace.placing = "order_rejected" =>
                          (r.trace.submits = 1 /\ res.status = "FAILED")
                    /\ r.trace.placing # "order_id" =>
                          b_orders[a] = b_opening[a].orders
                    /\ r.trace.placing = "order_id" =>
                          /\ r.trace.submits = 1
                          /\ Len(b_orders[a]) = Len(b_opening[a].orders) + 1
                          /\ res.status = "SUCCESS" =>
                                b_orders[a][Len(b_orders[a])].id = res.id
                    /\ \/ r.pc = "respond" /\ a = active_accounts[Len(active_accounts)]
                       \/ r.pc = "entry" /\ a = active_accounts[r.idx - 1]

\* account A's placement has failed and account B's order is placed after it
C23_Witness ==
    \E w \in DOMAIN rt :
        /\ rt[w].sig.kind = "BUY" /\ rt[w].pc \in {"entry", "respond"}
        /\ rt[w].account_results["A"].status = "FAILED"
        /\ rt[w].trace.account = "B"
        /\ rt[w].trace.placing = "order_id" /\ rt[w].trace.submits = 1
        /\ rt[w].account_results["B"].status = "SUCCESS"

\* ------------------------------------------------------------------------
\* The matcher
\* ------------------------------------------------------------------------

\* |q - lot_size| < 0.001 in ten-thousandths, written out on both sides
WithinTolerance(q, lot_size) == q - lot_size < 10 /\ lot_size - q < 10

\* step 1 of the account is over / step 2 of the account has searched
OrdersSearched(w) ==
    /\ rt[w].sig.kind = "CLOSE" /\ rt[w].trace.account # ""
    /\ rt[w].pc \in {"step2", "close", "respond"}
PositionsSearched(w) ==
    /\ rt[w].sig.kind = "CLOSE" /\ rt[w].trace.account # ""
    /\ rt[w].pc \in {"close", "respond"}
    /\ rt[w].trace.cancel # "ok"

\* C24: among orders, and among positions, of the signal's symbol and side,
\* one is matched exactly when its quantity q has |q - lot_size| < 0.001: a
\* quantity off by 0.0009 on either side matches, one off by 0.0011 does not.
C24_QuantityTolerance ==
    \A w \in DOMAIN rt :
        LET a == rt[w].trace.account
            lot == rt[w].sig.lot_size
            orders == b_opening[a].orders
            positions == b_opening[a].positions
        IN  /\ OrdersSearched(w) =>
                  (rt[w].trace.order_matched <=>
                      \E i \in 1..Len(orders) : WithinTolerance(orders[i].qty, lot))
            /\ PositionsSearched(w) =>
                  (rt[w].trace.position_matched <=>
                      \E i \in 1..Len(positions) :
                          WithinTolerance(positions[i].qty, lot))

\* the first order is 0.0011 above the signal and passed over, the second is
\* 0.0009 below it and cancelled
C24_Witness ==
    \E w \in DOMAIN rt :
        /\ OrdersSearched(w)
        /\ b_opening["A"].orders[1].qty = rt[w].sig.lot_size + 11
        /\ b_opening["A"].orders[2].qty = rt[w].sig.lot_size - 9
        /\ rt[w].account_results["A"] =
               [status |-> "SUCCESS", action |-> "ORDER_CANCELLED",
                id |-> b_opening["A"].orders[2].id]

\* id is the id of the first row, in broker-returned order, whose quantity
\* is within the tolerance of the signal's
IsFirstWithin(rows, lot_size, id) ==
    \E i \in 1..Len(rows) :
        /\ rows[i].id = id
        /\ WithinTolerance(rows[i].qty, lot_size)
        /\ \A j \in 1..(i - 1) : ~WithinTolerance(rows[j].qty, lot_size)

\* C26: for one account and one exit signal cancel_pending_order is called at
\* most once, on the first matching order in broker-returned order, and no
\* other order leaves the account's orders, whether that cancel succeeds or
\* fails; close_filled_position_safe is called at most once, on the first
\* matching position, and no other position is closed.
C26_FirstMatchOnly ==
    \A w \in DOMAIN rt :
        LET tr == rt[w].trace
            a == tr.account
            lot == rt[w].sig.lot_size
        IN  (rt[w].sig.kind = "CLOSE" /\ a # "") =>
              /\ tr.cancels <= 1
              /\ tr.cancels = 1 => IsFirstWithin(b_opening[a].orders, lot, tr.cancel_id)
              /\ Ids(b_opening[a].orders) \ Ids(b_orders[a]) \subseteq
                     (IF tr.cancels = 1 THEN {tr.cancel_id} ELSE {})
              /\ tr.closes <= 1
              /\ tr.closes = 1 =>
                     IsFirstWithin(b_opening[a].positions, lot, tr.close_id)
              /\ Ids(b_opening[a].positions) \ Ids(b_positions[a]) \subseteq
                     (IF tr.closes = 1 THEN {tr.close_id} ELSE {})

\* both orders and both positions match; the cancel of the first order has
\* failed, the second order is still live, and the first position is closed
C26_Witness ==
    \E w \in DOMAIN rt :
        LET tr == rt[w].trace
            lot == rt[w].sig.lot_size
        IN  /\ rt[w].sig.kind = "CLOSE" /\ rt[w].pc = "respond"
            /\ \A i \in 1..2 :
                   /\ WithinTolerance(b_opening["A"].orders[i].qty, lot)
                   /\ WithinTolerance(b_opening["A"].positions[i].qty, lot)
            /\ tr.cancels = 1 /\ tr.cancel = "failed" /\ tr.cancel_id = 11
            /\ Ids(b_orders["A"]) = {11, 12}
            /\ tr.closes = 1 /\ tr.close = "ok" /\ tr.close_id = 21
            /\ Ids(b_positions["A"]) = {22}

\* the active accounts whose result has the given status
AccountsWith(w, status) ==
    {k \in 1..Len(active_accounts) :
        rt[w].account_results[active_accounts[k]].status = status}

\* C29: in the 200 response to an exit signal successful_closes,
\* no_position_found and failed are the numbers of active accounts whose
\* result is SUCCESS, NO_POSITION_FOUND and FAILED, and add up to
\* total_accounts; in the response to an entry signal successful and failed
\* are the numbers of SUCCESS and FAILED accounts and add up to total_accounts.
C29_CountsPartitionAccounts ==
    \A w \in DOMAIN rt :
        LET resp == rt[w].response
        IN  (rt[w].pc = "responded" /\ resp.code = 200) =>
              IF rt[w].sig.kind = "CLOSE"
              THEN /\ resp.successful_closes + resp.no_position_found + resp.failed
                         = resp.total_accounts
                   /\ resp.successful_closes = Cardinality(AccountsWith(w, "SUCCESS"))
                   /\ resp.no_position_found
                         = Cardinality(AccountsWith(w, "NO_POSITION_FOUND"))
                   /\ resp.failed = Cardinality(AccountsWith(w, "FAILED"))
              ELSE /\ resp.successful + resp.failed = resp.total_accounts
                   /\ resp.successful = Cardinality(AccountsWith(w, "SUCCESS"))
                   /\ resp.failed = Cardinality(AccountsWith(w, "FAILED"))

\* the orders / positions account a held at startup and holds no more
OrdersGone(a) == Ids(b_opening[a].orders) \ Ids(b_orders[a])
PositionsGone(a) == Ids(b_opening[a].positions) \ Ids(b_positions[a])

\* C30: for one exit signal, no account loses both an order and a position,
\* and close_filled_position_safe is called for an account only when no
\* cancel succeeded for it.
C30_OneRemovalPerAccount ==
    \A w \in DOMAIN rt :
        rt[w].sig.kind = "CLOSE" =>
            /\ \A a \in AccountNames :
                   Cardinality(OrdersGone(a)) + Cardinality(PositionsGone(a)) <= 1
            /\ rt[w].trace.cancel = "ok" =>
                   /\ rt[w].trace.closes = 0
                   /\ rt[w].trace.deletes = 0
                   /\ rt[w].pc # "close"
            /\ rt[w].trace.closes > 0 => OrdersGone(rt[w].trace.account) = {}

\* the order of an account is cancelled and its matching position stays open
C30_Witness ==
    \E w \in DOMAIN rt :
        /\ rt[w].sig.kind = "CLOSE"
        /\ rt[w].trace.account = "A" /\ rt[w].trace.cancel = "ok"
        /\ OrdersGone("A") = {11}
        /\ b_opening["A"].positions = <<Position(21, 1, "buy", 10000, 5)>>
        /\ b_positions["A"] = b_opening["A"].positions
        /\ rt[w].account_results["A"].action = "ORDER_CANCELLED"

\* the most broker calls one account can take in an exit signal: the three
\* pulls and the cancel through the executor, and per attempt of the closer a
\* token fetch, a DELETE and a position re-check
CallsPerAccount == 4 * DefaultMaxAttempts + 3 * CloseMaxRetries

\* the request thread has answered 200 with a result for every active account
Completed(w) ==
    /\ rt[w].pc = "responded" /\ rt[w].response.code = 200
    /\ rt[w].response.total_accounts = Len(active_accounts)
    /\ \A k \in 1..Len(active_accounts) :
           rt[w].account_results[active_accounts[k]].status
               \in {"SUCCESS", "NO_POSITION_FOUND", "FAILED"}

\* C25: a signal that has passed validation is answered, with a result for
\* every active account, after at most CallsPerAccount broker calls per
\* account; the closer never goes beyond max_retries attempts.
C25_RunsToCompletion ==
    /\ [](/\ rt["w1"].calls <= Len(active_accounts) * CallsPerAccount
          /\ rt["w1"].attempt <= CloseMaxRetries)
    /\ (rt["w1"].pc \notin {"idle", "responded"}) ~> Completed("w1")

\* an exit signal on two accounts is answered after more broker calls than one
\* account can take, one close having failed
C25_Witness ==
    /\ Completed("w1") /\ rt["w1"].sig.kind = "CLOSE"
    /\ Len(active_accounts) = 2
    /\ rt["w1"].failed_count >= 1
    /\ rt["w1"].calls > CallsPerAccount

\* ------------------------------------------------------------------------
\* Matching without an instrument table
\* ------------------------------------------------------------------------

\* C34: an account whose instrument table is missing when matching starts (the
\* prefetch failed, nothing was cached before) has no order and no position
\* matched: a matching step taken without the table cancels nothing and goes on
\* to no close, and the account is left with no cancel and no close issued,
\* its orders and positions as they were, and the result NO_POSITION_FOUND.
C34_NoTableNoMatch ==
    /\ [](\A w \in DOMAIN rt : \A a \in AccountNames :
             LET t == rt[w].trace
             IN  (/\ LeftAccount(w, a) /\ rt[w].sig.kind = "CLOSE"
                  /\ instrument_cache[a] = "absent") =>
                     /\ ~t.order_matched /\ t.cancels = 0 /\ t.cancel = "none"
                     /\ ~t.position_matched /\ t.closes = 0 /\ t.close = "none"
                     /\ OrdersGone(a) = {} /\ PositionsGone(a) = {}
                     /\ rt[w].account_results[a] =
                            [status |-> "NO_POSITION_FOUND", action |-> "", id |-> 0])
    /\ [][\A w \in DOMAIN rt :
             (/\ rt[w].pc \in {"step1", "step2"} /\ rt'[w].pc # rt[w].pc
              /\ instrument_cache[Acct(w)] = "absent") =>
                 /\ rt'[w].pc # "close"
                 /\ rt'[w].trace.cancels = 0 /\ rt'[w].trace.closes = 0
                 /\ b_orders' = b_orders /\ b_positions' = b_positions
                 /\ trades' = trades
                 /\ rt[w].pc = "step2" =>
                        rt'[w].account_results[Acct(w)].status = "NO_POSITION_FOUND"]_vars

\* both pulls succeeded, the instruments pull failed, and the account, which
\* holds an order and a position the signal names, is left with
\* NO_POSITION_FOUND
C34_Witness ==
    \E w \in DOMAIN rt :
        /\ LeftAccount(w, "A") /\ rt[w].sig.kind = "CLOSE"
        /\ instrument_cache["A"] = "absent"
        /\ rt[w].trace.orders_ok /\ rt[w].trace.positions_ok
        /\ HadOrder("A", rt[w].sig) /\ HadPosition("A", rt[w].sig)
        /\ rt[w].account_results["A"].status = "NO_POSITION_FOUND"
        /\ b_orders["A"] = b_opening["A"].orders
        /\ b_positions["A"] = b_opening["A"].positions

\* ------------------------------------------------------------------------
\* Entry results and the broker
\* ------------------------------------------------------------------------

\* the ids of the orders placed at the broker on the account since startup
OrdersPlaced(a) == Ids(b_orders[a]) \ Ids(b_opening[a].orders)

\* C33 (as claimed): an account of an entry signal has the result SUCCESS
\* exactly when the broker accepted an order for it in this signal: with FAILED
\* no order was placed at the broker for the account, and every order placed
\* has a PENDING ledger row carrying its order id.
C33_SuccessIffOrderPlaced ==
    \A w \in DOMAIN rt : \A a \in AccountNames :
        LET res == rt[w].account_results[a]
        IN  (rt[w].sig.kind \in {"BUY", "SELL"} /\ res # NoResult) =>
                /\ res.status = "SUCCESS" <=> OrdersPlaced(a) # {}
                /\ res.status = "FAILED" => OrdersPlaced(a) = {}
                /\ \A id \in OrdersPlaced(a) :
                       \E t \in trades : /\ t.account_name = a /\ t.status = "PENDING"
                                         /\ t.order_id = id

\* ------------------------------------------------------------------------
\* Concurrent exit signals on one position
\* ------------------------------------------------------------------------

\* the rows of the account that are CLOSED
ClosedRows(a) == {t \in trades : t.account_name = a /\ t.status = "CLOSED"}

\* the workers whose signal closed the position of that id on the account
ClosersOf(a, id) ==
    {w \in DOMAIN rt :
        /\ rt[w].sig.kind = "CLOSE"
        /\ rt[w].account_results[a] =
               [status |-> "SUCCESS", action |-> "POSITION_CLOSED", id |-> id]}

\* C31 (as claimed): of exit signals with the same symbol, side and quantity
\* handled concurrently on an account that holds one matching position and no
\* matching order, at most one reports POSITION_CLOSED for that position, and
\* no more ledger rows are CLOSED than orders and positions were removed at the
\* broker.
C31_OneCloseReportedPerPosition ==
    (\A w \in DOMAIN rt : rt[w].sig.kind \in {"CLOSE", "none"}) =>
        \A a \in AccountNames :
            /\ \A id \in Ids(b_opening[a].positions) :
                   Cardinality(ClosersOf(a, id)) <= 1
            /\ Cardinality(ClosedRows(a)) <=
                   Cardinality(OrdersGone(a)) + Cardinality(PositionsGone(a))

\* ------------------------------------------------------------------------
\* Properties of the rate limiter and the executor
\* ------------------------------------------------------------------------

\* C6: under any interleaving of concurrent callers, two consecutive call times
\* written to _last_call_at for one (account, endpoint) key are at least
\* MIN_GAP_SEC apart (so the recorded time of a key never decreases).
C6_RecordedGap == \A k \in RateKeys : rec_gap[k] # "short"

\* Two callers of the same key have both passed the rate limiter, the second
\* write a full gap after the first.
C6_Witness ==
    \E k \in RateKeys :
        /\ rec_gap[k] = "full"
        /\ last_age[k] = 0
        /\ \A t \in Threads : t \in DOMAIN th /\ th[t].key = k /\ th[t].pc \in {"call", "done"}

\* C7 (as claimed): two consecutive invocations of req_fn for one
\* (account, endpoint) key are at least MIN_GAP_SEC apart.
C7_InvocationGap == \A k \in RateKeys : inv_gap[k] # "short"

\* C8: a failure of req_fn that is not a throttling failure (status 429) ends
\* the call at once with that failure raised: no backoff sleep follows it and
\* req_fn is not invoked again; a further attempt is made only after a
\* throttling failure.
C8_OnlyThrottlingRetried ==
    \A t \in DOMAIN th :
        /\ th[t].exc.status \notin {200, 429} =>
               th[t].pc = "done" /\ th[t].result = "raised"
        /\ th[t].pc = "bo_sleep" => th[t].exc.status = 429
        /\ th[t].attempt > 1 => th[t].exc.status = 429 \/ th[t].pc = "done"

\* A non-throttling failure on the second attempt, after a throttled first one.
C8_Witness ==
    \E t \in DOMAIN th :
        th[t].result = "raised" /\ th[t].exc.status = 503 /\ th[t].calls = 2

\* C9: req_fn is invoked at most max_attempts times; a successful invocation
\* ends the call with its result; when all max_attempts invocations fail with a
\* throttling failure the call raises the RuntimeError naming the account and
\* endpoint, and it raises that error in no other case.
C9_BoundedAttempts ==
    \A t \in DOMAIN th :
        /\ th[t].calls <= th[t].max_attempts
        /\ (th[t].calls >= 1 /\ th[t].exc = NoException) =>
               th[t].pc = "done" /\ th[t].result = "returned"
        /\ th[t].result = "returned" => th[t].exc = NoException
        /\ (th[t].pc = "done" /\ th[t].exc.status = 429) =>
               /\ th[t].result = "exhausted"
               /\ th[t].calls = th[t].max_attempts
               /\ th[t].named = th[t].key
        /\ th[t].result = "exhausted" =>
               th[t].exc.status = 429 /\ th[t].calls = th[t].max_attempts

\* Three throttled attempts out of three: the call ends exhausted.
C9_Witness ==
    \E t \in DOMAIN th :
        th[t].result = "exhausted" /\ th[t].calls = 3 /\ th[t].max_attempts = 3

\* the caller is inside "with _last_call_lock": waiting out the gap or about
\* to record its call time
InSection(t) == th[t].pc \in {"rl_sleep", "rl_record"}

\* the caller is inside _respect_rate_limit
InThrottle(t) == th[t].pc \in {"rl_now", "rl_lock", "rl_sleep", "rl_record"}

\* C32: at any time at most one caller, over all keys, is inside the
\* wait-and-record section of _respect_rate_limit, and it holds the lock; while
\* a caller waits out MIN_GAP no other caller records its call time, whatever
\* its key; and every call of _respect_rate_limit returns.
C32_OneCallerInSection ==
    /\ [](\A t \in DOMAIN th :
             InSection(t) => (lock_owner = t /\ \A u \in DOMAIN th : InSection(u) => u = t))
    /\ [][\A t \in DOMAIN th :
             th[t].pc = "rl_sleep" =>
                 /\ \A u \in DOMAIN th \ {t} : ~(th[u].pc # "call" /\ th'[u].pc = "call")
                 /\ \A k \in RateKeys \ {th[t].key} :
                        last_age'[k] = 0 => last_age[k] = 0]_vars
    /\ \A t \in Threads : InThrottle(t) ~> (th[t].pc = "call")

\* a caller waits out the gap of its key while another caller, whose own key
\* was last called MIN_GAP or more ago, is kept waiting for the lock
C32_Witness ==
    \E t \in DOMAIN th : \E u \in DOMAIN th \ {t} :
        /\ th[t].pc = "rl_sleep" /\ th[t].sleep_left > 0
        /\ th[u].pc = "rl_lock" /\ th[u].key # th[t].key
        /\ last_age[th[u].key] >= MIN_GAP_SEC
        /\ RateWait(LastCall(th[u].key), 0 - th[u].now_age) <= 0

\* C10 (as claimed): every pull of orders, positions or instruments and every
\* order cancellation sent to the broker goes through _with_429_backoff, the
\* position re-checks of close_filled_position_safe included.
C10_PullsThroughExecutor ==
    \A c \in broker_calls :
        c.endpoint \in {"orders", "positions", "instruments", "delete_order"} =>
            c.throttled
====
